---- MODULE Spec2Model ----
(***************************************************************************)
(* The tabular analysis plan engine of streamlit_app.py: the column        *)
(* resolver (_resolve_column), the type coercer (_smart_coerce_dataframe)  *)
(* and the sequential plan executor (_execute_analysis_plan).              *)
(*                                                                         *)
(* Text (column names, cell strings, plan literals) is a sequence of       *)
(* one-character strings, so that lowercasing, stripping, parsing and      *)
(* difflib's similarity ratio are computed character by character.         *)
(* A cell or a plan literal is a record [t, n, d, s]: t is the kind        *)
(* ("num", "str", "nan", "bool", "ts", "none"), n/d an exact rational for  *)
(* numbers (n the yyyymmdd code for timestamps), s the text for strings.   *)
(* A table is [cols, dtypes, rows]: the pandas row index is not modelled,  *)
(* since every operation keeps the row labels unique and aligned.          *)
(***************************************************************************)
EXTENDS Integers, Sequences, FiniteSets, TLC

VARIABLES
    input,      \* the table value the caller passed in (never reassigned)
    callerDf,   \* the current content of the caller's DataFrame object
    aliased,    \* TRUE iff `working` is the same object as the caller's table
    working,    \* the executor's working table
    logs,       \* the execution log
    pc,         \* "coerce", "apply", "final", "done", "raised"
    plan,       \* the steps of the plan dispatched so far, in order
    last,       \* what the last dispatched step did
    trace,      \* phases run so far, in order
    working2,   \* a second execution of the same plan on an equal table
    logs2,
    pc2,
    tiesKept,   \* TRUE iff numpy's quicksort of this build keeps equal keys in order
    rcols,      \* resolver harness: column names of the table
    rname,      \* resolver harness: requested name
    rres,       \* resolver harness: result
    rname2,     \* resolver harness: requested name of a second call
    rres2,      \* resolver harness: result of the second call
    rpc,        \* resolver harness: "idle", "call", "returned", "again"
    cin,        \* coercer harness: the table passed to the coercer
    cout,       \* coercer harness: the table it returned
    cpc,        \* coercer harness: "idle", "call", "returned"
    agEnv,      \* analysis_agent: which of the services it calls answer
    agPlan,     \* analysis_agent: the plan _generate_analysis_plan returned
    agRan,      \* analysis_agent: _execute_analysis_plan was called
    agRaised,   \* analysis_agent: the call that raised inside the try, or "none"
    agState,    \* analysis_agent: the entries it stored in the state
    agPc,       \* analysis_agent: "idle", "generate", "gate", "execute",
                \* "summarize", "fallback", "returned"
    auSettings, \* auth middleware: the settings object
    auRequest,  \* auth middleware: the request
    auResponse, \* auth middleware: the response and whether call_next ran
    auPc,       \* auth middleware: "idle", "verify", "respond", "sent"
    grState,    \* graph: the AppState dict the nodes pass along
    grLlm,      \* graph: what llm.invoke answers to the router's prompt
    grFails,    \* graph: the nodes whose calls raise in this invocation
    grVisited,  \* graph: the nodes run so far, in order
    grPc        \* graph: "idle", the node to run next, "end" or "raised"

vars == <<input, callerDf, aliased, working, logs, pc, plan, last, trace,
          working2, logs2, pc2, tiesKept, rcols, rname, rres, rname2, rres2, rpc,
          cin, cout, cpc, agEnv, agPlan, agRan, agRaised, agState, agPc,
          auSettings, auRequest, auResponse, auPc,
          grState, grLlm, grFails, grVisited, grPc>>

runVars == <<input, callerDf, aliased, working, logs, pc, plan, last, trace,
             working2, logs2, pc2, tiesKept>>
resVars == <<rcols, rname, rres, rname2, rres2, rpc>>
coVars == <<cin, cout, cpc>>

agVars == <<agEnv, agPlan, agRan, agRaised, agState, agPc>>

\* what the executor, the resolver harness, the coercer harness, the agent
\* and the auth middleware leave alone
authVars == <<auSettings, auRequest, auResponse, auPc>>
graphVars == <<grState, grLlm, grFails, grVisited, grPc>>

notRun == <<resVars, coVars, agVars, authVars, graphVars>>
notRes == <<runVars, coVars, agVars, authVars, graphVars>>
notCo == <<runVars, resVars, agVars, authVars, graphVars>>
notAg == <<runVars, resVars, coVars, authVars, graphVars>>
notAuth == <<runVars, resVars, coVars, agVars, graphVars>>
notGraph == <<runVars, resVars, coVars, agVars, authVars>>

----------------------------------------------------------------------------
(* Characters and text *)

\* the characters used, in code-point order
Alphabet ==
    <<" ", "!", "$", "%", ",", "-", ".",
      "0", "1", "2", "3", "4", "5", "6", "7", "8", "9",
      "<", "=", ">",
      "A", "B", "C", "D", "E", "F", "G", "H", "I", "J", "K", "L", "M",
      "N", "O", "P", "Q", "R", "S", "T", "U", "V", "W", "X", "Y", "Z",
      "_",
      "a", "b", "c", "d", "e", "f", "g", "h", "i", "j", "k", "l", "m",
      "n", "o", "p", "q", "r", "s", "t", "u", "v", "w", "x", "y", "z">>

\* the place of x in the sequence s
Place(s, x) == CHOOSE i \in 1..Len(s) : s[i] = x

\* ord() of a character, as its place in Alphabet
Ord(ch) == Place(Alphabet, ch)

UpperCase == SubSeq(Alphabet, Place(Alphabet, "A"), Place(Alphabet, "Z"))
LowerCase == SubSeq(Alphabet, Place(Alphabet, "a"), Place(Alphabet, "z"))
UpperSet == {UpperCase[i] : i \in 1..Len(UpperCase)}

\* str.lower() on one character: the letter as far after "a" as ch is after
\* "A", for ch from "A" to "Z"
LowerCh(ch) == IF ch \in UpperSet THEN LowerCase[Place(UpperCase, ch)] ELSE ch

\* [F(x) for x in s]
RECURSIVE MapSeq(_, _)
MapSeq(F(_), s) == IF s = <<>> THEN <<>> ELSE <<F(Head(s))>> \o MapSeq(F, Tail(s))

\* str.lower()
Lower(s) == MapSeq(LowerCh, s)

\* x before y in the order of s
Before(s, x, y) == Place(s, x) < Place(s, y)

\* Python's ordering of str: lexicographic by code point
RECURSIVE StrLess(_, _)
StrLess(a, b) ==
    IF Len(b) = 0 THEN FALSE
    ELSE IF Len(a) = 0 THEN TRUE
    ELSE IF a[1] = b[1] THEN StrLess(Tail(a), Tail(b))
    ELSE Before(Alphabet, a[1], b[1])

----------------------------------------------------------------------------
(* difflib.SequenceMatcher, as get_close_matches uses it (no junk, and the  *)
(* autojunk heuristic needs 200 characters or more)                         *)

\* length of the common run of a from i and b from j, within the windows
RECURSIVE RunLen(_, _, _, _, _, _)
RunLen(a, i, ahi, b, j, bhi) ==
    IF i > ahi \/ j > bhi \/ a[i] # b[j] THEN 0
    ELSE 1 + RunLen(a, i + 1, ahi, b, j + 1, bhi)

\* of the blocks starting at the places `cells`, with lengths len, the
\* longest; of the longest, the one earliest in a, and of those the one
\* earliest in b
LongestBlock(len, cells) ==
    CHOOSE c \in cells :
        \A e \in cells :
            \/ len[c] > len[e]
            \/ len[c] = len[e] /\ (c[1] < e[1] \/ (c[1] = e[1] /\ c[2] <= e[2]))

BlockOf(len, c) == <<c[1], c[2], len[c]>>

\* find_longest_match: the longest block a[i..i+k-1] = b[j..j+k-1] in the
\* windows a[alo..ahi], b[blo..bhi], as <<i, j, k>>; k = 0 when none
FindLongestMatch(a, alo, ahi, b, blo, bhi) ==
    IF alo > ahi \/ blo > bhi THEN <<alo, blo, 0>>
    ELSE BlockOf([c \in (alo..ahi) \X (blo..bhi) |-> RunLen(a, c[1], ahi, b, c[2], bhi)],
                 LongestBlock([c \in (alo..ahi) \X (blo..bhi) |->
                                  RunLen(a, c[1], ahi, b, c[2], bhi)],
                              (alo..ahi) \X (blo..bhi)))

\* sum of the sizes of get_matching_blocks(): the longest block m, and the
\* blocks to its left and to its right
RECURSIVE Matches(_, _, _, _, _, _)
AroundBlock(m, a, alo, ahi, b, blo, bhi) ==
    IF m[3] = 0 THEN 0
    ELSE m[3]
         + Matches(a, alo, m[1] - 1, b, blo, m[2] - 1)
         + Matches(a, m[1] + m[3], ahi, b, m[2] + m[3], bhi)
Matches(a, alo, ahi, b, blo, bhi) ==
    AroundBlock(FindLongestMatch(a, alo, ahi, b, blo, bhi), a, alo, ahi, b, blo, bhi)

\* ratio() = 2.0 * M / T as the exact fraction <<2M, T>>; 1.0 for two empty texts
Ratio(a, b) ==
    IF Len(a) + Len(b) = 0 THEN <<1, 1>>
    ELSE <<2 * Matches(a, 1, Len(a), b, 1, Len(b)), Len(a) + Len(b)>>

\* real_quick_ratio(): an upper bound of ratio() from the lengths alone
RealQuickRatio(a, b) ==
    IF Len(a) + Len(b) = 0 THEN <<1, 1>>
    ELSE <<2 * (IF Len(a) < Len(b) THEN Len(a) ELSE Len(b)), Len(a) + Len(b)>>

\* how often ch occurs in the first n places of s
Count(s, n, ch) == Cardinality({i \in 1..n : s[i] = ch})

\* quick_ratio(): an upper bound of ratio() from the characters the two
\* texts share, counted with multiplicity (the places of b whose character
\* a still has an occurrence left for)
QuickRatio(a, b) ==
    IF Len(a) + Len(b) = 0 THEN <<1, 1>>
    ELSE <<2 * Cardinality({i \in 1..Len(b) : Count(b, i, b[i]) <= Count(a, Len(a), b[i])}),
           Len(a) + Len(b)>>

FracGeq(x, y) == x[1] * y[2] >= y[1] * x[2]
FracGt(x, y) == x[1] * y[2] > y[1] * x[2]

\* a cutoff of 0.4, which the code does not use
LooseCutoff == <<4, 10>>

\* cutoff=0.8 of get_close_matches, as the fraction 8/10
CutoffNum == 8
CutoffDen == 10
Cutoff == <<CutoffNum, CutoffDen>>

\* does x pass the three tests of get_close_matches against the word
IsClose(x, word) ==
    /\ FracGeq(RealQuickRatio(x, word), Cutoff)
    /\ FracGeq(QuickRatio(x, word), Cutoff)
    /\ FracGeq(Ratio(x, word), Cutoff)

\* heapq.nlargest(1, result) over the (score, text) pairs of the places
\* `good`: the highest score, and of equal scores the greater text
Largest(possibilities, good, score) ==
    CHOOSE i \in good :
        \A k \in good :
            \/ FracGt(score[i], score[k])
            \/ /\ ~FracGt(score[k], score[i])
               /\ ~StrLess(possibilities[i], possibilities[k])

FirstOrNone(possibilities, good, score) ==
    IF good = {} THEN <<>> ELSE <<possibilities[Largest(possibilities, good, score)]>>

\* get_close_matches(word, possibilities, n=1, cutoff=0.8): the possibility
\* scoring highest among those at or above the cutoff.
\* <<>> stands for the empty result list, <<x>> for [x].
GetCloseMatches(word, possibilities) ==
    FirstOrNone(possibilities,
                {i \in 1..Len(possibilities) : IsClose(possibilities[i], word)},
                [i \in 1..Len(possibilities) |->
                    IF IsClose(possibilities[i], word) THEN Ratio(possibilities[i], word)
                    ELSE <<0, 1>>])

----------------------------------------------------------------------------
(* Values: table cells, column labels and plan literals *)

NumV(n) == [t |-> "num", n |-> n, d |-> 1, s |-> <<>>]
StrV(s) == [t |-> "str", n |-> 0, d |-> 1, s |-> s]
BoolV(b) == [t |-> "bool", n |-> IF b THEN 1 ELSE 0, d |-> 1, s |-> <<>>]
\* a timestamp: the day as the code yyyymmdd, d the nanoseconds after midnight
TsAt(code, ns) == [t |-> "ts", n |-> code, d |-> ns, s |-> <<>>]
TsV(code) == TsAt(code, 0)
NaN == [t |-> "nan", n |-> 0, d |-> 1, s |-> <<>>]       \* NaN, NaT, pd.NA, None in a cell
NoneV == [t |-> "none", n |-> 0, d |-> 1, s |-> <<>>]    \* Python None (JSON null)
Absent == [t |-> "absent", n |-> 0, d |-> 1, s |-> <<>>] \* key missing from the dict

Digits == <<"0", "1", "2", "3", "4", "5", "6", "7", "8", "9">>

\* str() of a non-negative int
RECURSIVE NatToText(_)
NatToText(n) ==
    (IF n < 10 THEN <<>> ELSE NatToText(n \div 10)) \o <<Digits[(n % 10) + 1]>>

IntToText(n) == (IF n < 0 THEN <<"-">> ELSE <<>>) \o NatToText(IF n < 0 THEN -n ELSE n)

TextNone == <<"N", "o", "n", "e">>
TextNan == <<"n", "a", "n">>
TextNaT == <<"N", "a", "T">>
TextTrue == <<"T", "r", "u", "e">>
TextFalse == <<"F", "a", "l", "s", "e">>

\* the last two digits of yy * 100 + k
TwoDigits(text) == SubSeq(text, Len(text) - 1, Len(text))

\* the text of a timestamp code yyyymmdd: "yyyy-mm-dd"
DashDate(text) == SubSeq(text, 1, 4) \o <<"-">> \o SubSeq(text, 5, 6) \o <<"-">> \o TwoDigits(text)
TsToText(c) == DashDate(NatToText(c))

\* str(x) of a label or a plan literal; whole numbers only (a float prints
\* with its fraction, which no plan name of the model spells)
PyStr(v) ==
    CASE v.t = "str" -> v.s
      [] v.t = "num" -> IntToText(v.n \div v.d)
      [] v.t = "bool" -> IF v.n = 1 THEN TextTrue ELSE TextFalse
      [] v.t = "ts" -> TsToText(v.n)
      [] v.t = "nan" -> TextNan
      [] OTHER -> TextNone

\* truthiness of a plan value: None, "", 0, False and a missing key are falsy
Truthy(v) ==
    CASE v.t = "str" -> Len(v.s) > 0
      [] v.t = "num" -> v.n # 0
      [] v.t = "bool" -> v.n = 1
      [] v.t = "ts" -> TRUE
      [] v.t = "nan" -> TRUE
      [] OTHER -> FALSE

----------------------------------------------------------------------------
(* _resolve_column *)

SeqToSet(s) == {s[i] : i \in 1..Len(s)}

\* list.index(x): the first position holding x
IndexOf(s, x) == CHOOSE i \in 1..Len(s) : s[i] = x /\ \A k \in 1..(i - 1) : s[k] # x

\* the last position holding x
LastIndexOf(s, x) == CHOOSE i \in 1..Len(s) : s[i] = x /\ \A k \in (i + 1)..Len(s) : s[k] # x

\* [str(c) for c in df.columns] and [c.lower() for c in candidates]
Texts(cols) == MapSeq(PyStr, cols)
Lowered(candidates) == MapSeq(Lower, candidates)

\* candidates[lowered_candidates.index(matches[0])] if matches, else None
FromMatches(matches, candidates, lowered_candidates) ==
    IF Len(matches) > 0
    THEN StrV(candidates[IndexOf(lowered_candidates, matches[1])])
    ELSE NoneV

\* tier 3: difflib over the lowercased labels
FuzzyTier(candidates, lowered_candidates, key) ==
    FromMatches(GetCloseMatches(key, lowered_candidates), candidates, lowered_candidates)

\* tier 2, then tier 3: the dict {str(c).lower(): str(c) for c in df.columns}
\* keeps, of the columns with one lowercased text, the last
CaseInsensitiveTier(candidates, lowered_candidates, key) ==
    IF /\ \E i \in 1..Len(lowered_candidates) : lowered_candidates[i] = key
       /\ Len(candidates[LastIndexOf(lowered_candidates, key)]) > 0         \* if ci:
    THEN StrV(candidates[LastIndexOf(lowered_candidates, key)])
    ELSE FuzzyTier(candidates, lowered_candidates, key)

\* a resolver that does not lowercase the requested name, which the code does
ResolveKeyAsGiven(cols, name) ==
    IF \E i \in 1..Len(cols) : cols[i] = StrV(name) THEN StrV(name)
    ELSE CaseInsensitiveTier(Texts(cols), Lowered(Texts(cols)), name)

\* a resolver without its first tier, which the code has
ResolveWithoutExact(cols, name) ==
    CaseInsensitiveTier(Texts(cols), Lowered(Texts(cols)), Lower(name))

\* _resolve_column(df, name) on the labels `cols` of df and the text `name`:
\* StrV(label text), or NoneV for not found
ResolveColumn(cols, name) ==
    IF \E i \in 1..Len(cols) : cols[i] = StrV(name) THEN StrV(name)
    ELSE CaseInsensitiveTier(Texts(cols), Lowered(Texts(cols)), Lower(name))

----------------------------------------------------------------------------
(* Numbers: exact rationals n/d, d > 0, in lowest terms *)

Abs(x) == IF x < 0 THEN -x ELSE x

RECURSIVE Gcd(_, _)
Gcd(a, b) == IF b = 0 THEN a ELSE Gcd(b, a % b)

Lowest(n, d, g) == [t |-> "num", n |-> n \div g, d |-> d \div g, s |-> <<>>]
Frac(n, d) ==
    Lowest(IF d < 0 THEN -n ELSE n, Abs(d), Gcd(Abs(n), Abs(d)))

IsWhole(v) == v.d = 1
NumLess(x, y) == x.n * y.d < y.n * x.d
NumEq(x, y) == x.n * y.d = y.n * x.d
NumAdd(x, y) == Frac(x.n * y.d + y.n * x.d, x.d * y.d)
NumSub(x, y) == Frac(x.n * y.d - y.n * x.d, x.d * y.d)
NumMul(x, y) == Frac(x.n * y.n, x.d * y.d)

IsDigit(ch) == \E i \in 1..Len(Digits) : Digits[i] = ch
AllDigits(s) == Len(s) > 0 /\ \A i \in 1..Len(s) : IsDigit(s[i])

RECURSIVE NatOf(_)
NatOf(s) ==
    IF Len(s) = 0 THEN 0
    ELSE 10 * NatOf(SubSeq(s, 1, Len(s) - 1)) + (Place(Digits, s[Len(s)]) - 1)

RECURSIVE Pow10(_)
Pow10(k) == IF k = 0 THEN 1 ELSE 10 * Pow10(k - 1)

\* the text without the characters of `drop`
RECURSIVE Strip(_, _)
Strip(s, drop) ==
    IF Len(s) = 0 THEN <<>>
    ELSE (IF s[1] \in drop THEN <<>> ELSE <<s[1]>>) \o Strip(Tail(s), drop)

\* str.strip(): leading and trailing blanks removed
RECURSIVE TrimLeft(_)
TrimLeft(s) == IF Len(s) > 0 /\ s[1] = " " THEN TrimLeft(Tail(s)) ELSE s
RECURSIVE TrimRight(_)
TrimRight(s) ==
    IF Len(s) > 0 /\ s[Len(s)] = " " THEN TrimRight(SubSeq(s, 1, Len(s) - 1)) ELSE s
Trim(s) == TrimRight(TrimLeft(s))

\* the number "ip.fp" spells: digits on at least one side of the point
Decimal(ip, fp) ==
    IF /\ Len(ip) = 0 \/ AllDigits(ip)
       /\ Len(fp) = 0 \/ AllDigits(fp)
       /\ Len(ip) + Len(fp) > 0
    THEN Frac(NatOf(ip) * Pow10(Len(fp)) + NatOf(fp), Pow10(Len(fp)))
    ELSE NaN

Dots(s) == {i \in 1..Len(s) : s[i] = "."}
SplitAt(s, p) == Decimal(SubSeq(s, 1, p - 1), SubSeq(s, p + 1, Len(s)))

\* the number a text spells: an optional "-", digits, and optionally "." and
\* more digits; NaN for any other text (the spellings with exponents, "inf",
\* "nan", "+" or "_" are not cell or plan texts of the model)
ParseUnsigned(s) ==
    IF Dots(s) = {} THEN (IF AllDigits(s) THEN NumV(NatOf(s)) ELSE NaN)
    ELSE IF Cardinality(Dots(s)) = 1 THEN SplitAt(s, CHOOSE i \in Dots(s) : TRUE)
    ELSE NaN

Signed(u, minus) == IF u.t = "num" /\ minus THEN Frac(-u.n, u.d) ELSE u
ParseNum(s) ==
    Signed(ParseUnsigned(IF Len(s) > 0 /\ s[1] = "-" THEN Tail(s) ELSE s),
           Len(s) > 0 /\ s[1] = "-")

NumOr(p, v) == IF p.t = "num" THEN p ELSE v

\* _as_number on a text: text = str(value).strip()
AsNumberText(v, text) ==
    IF Lower(text) = <<"t", "r", "u", "e">> THEN BoolV(TRUE)
    ELSE IF Lower(text) = <<"f", "a", "l", "s", "e">> THEN BoolV(FALSE)
    ELSE IF Len(text) = 0 THEN v
    ELSE NumOr(ParseNum(text), v)

\* _as_number(value): numbers and booleans as they are; a text that spells
\* true/false becomes the boolean, one that spells a number the number, any
\* other value is returned unchanged
AsNumber(v) == IF v.t # "str" THEN v ELSE AsNumberText(v, Trim(v.s))

WholeOf(p, text) ==
    IF p.t = "num" /\ IsWhole(p) /\ Dots(text) = {} THEN <<TRUE, p.n>> ELSE <<FALSE, 0>>

\* int(x) at lines 570, 613, 711, 729: <<ok, n>>; a None or a text that does
\* not spell a whole number raises TypeError / ValueError
PyInt(v) ==
    CASE v.t = "num" -> <<TRUE, IF v.n >= 0 THEN v.n \div v.d ELSE -((-v.n) \div v.d)>>
      [] v.t = "bool" -> <<TRUE, v.n>>
      [] v.t = "str" -> WholeOf(ParseNum(Trim(v.s)), v.s)
      [] OTHER -> <<FALSE, 0>>

----------------------------------------------------------------------------
(* Timestamps: pd.to_datetime(..., errors="coerce") *)

DaysIn(y, m) ==
    IF m \in {4, 6, 9, 11} THEN 30
    ELSE IF m = 2 THEN (IF (y % 4 = 0 /\ y % 100 # 0) \/ y % 400 = 0 THEN 29 ELSE 28)
    ELSE 31

\* the code of a day
Ymd(y, m, dd) == y * 10000 + m * 100 + dd

\* the timestamp of the day, NaT when the calendar has no such day
Civil(y, m, dd) ==
    IF m >= 1 /\ m <= 12 /\ dd >= 1 /\ dd <= DaysIn(y, m) THEN TsV(Ymd(y, m, dd)) ELSE NaN

\* a text "yyyy-mm-dd" naming a day of the calendar parses; any other text is
\* NaT (the other spellings dateutil accepts are not cell texts of the model)
ParseDate(s) ==
    IF /\ Len(s) = 10
       /\ s[5] = "-" /\ s[8] = "-"
       /\ AllDigits(SubSeq(s, 1, 4)) /\ AllDigits(SubSeq(s, 6, 7))
       /\ AllDigits(SubSeq(s, 9, 10))
    THEN Civil(NatOf(SubSeq(s, 1, 4)), NatOf(SubSeq(s, 6, 7)), NatOf(SubSeq(s, 9, 10)))
    ELSE NaN

----------------------------------------------------------------------------
(* Tables *)

Table(cols, dtypes, rows) == [cols |-> cols, dtypes |-> dtypes, rows |-> rows]

NCols(tb) == Len(tb.cols)
NRows(tb) == Len(tb.rows)

HasCol(tb, label) == \E i \in 1..Len(tb.cols) : tb.cols[i] = label
ColIdx(tb, label) == IndexOf(tb.cols, label)
Column(tb, label) == [r \in 1..NRows(tb) |-> tb.rows[r][ColIdx(tb, label)]]
DtypeOf(tb, label) == tb.dtypes[ColIdx(tb, label)]

\* column c replaced by the values, with their dtype
PutColumn(tb, c, dtype, values) ==
    Table(tb.cols,
          [tb.dtypes EXCEPT ![c] = dtype],
          [r \in 1..NRows(tb) |-> [tb.rows[r] EXCEPT ![c] = values[r]]])

\* df[label] = values: an existing column is replaced in place, a new one is
\* appended as the last column
SetColumn(tb, label, dtype, values) ==
    IF HasCol(tb, label) THEN PutColumn(tb, ColIdx(tb, label), dtype, values)
    ELSE Table(Append(tb.cols, label),
               Append(tb.dtypes, dtype),
               [r \in 1..NRows(tb) |-> Append(tb.rows[r], values[r])])

\* the table of the columns cc, each <<dtype, values>>, under the labels cols
FromColumns(cols, cc, n) ==
    Table(cols,
          [c \in 1..Len(cols) |-> cc[c][1]],
          [r \in 1..n |-> [c \in 1..Len(cols) |-> cc[c][2][r]]])

\* the rows at the positions `pos`, in that order
\* every row at the positions taken twice over, which indexing with a mask
\* does not do
TakeRowsTwice(tb, pos) ==
    Table(tb.cols, tb.dtypes,
          [k \in 1..(2 * Len(pos)) |-> tb.rows[pos[((k - 1) % Len(pos)) + 1]]])

TakeRows(tb, pos) == Table(tb.cols, tb.dtypes, [k \in 1..Len(pos) |-> tb.rows[pos[k]]])

\* the positions i..n satisfying keep, in increasing order
RECURSIVE Positions(_, _, _)
Positions(keep(_), i, n) ==
    IF i > n THEN <<>>
    ELSE (IF keep(i) THEN <<i>> ELSE <<>>) \o Positions(keep, i + 1, n)

IsNumericDtype(dt) == dt \in {"int64", "float64", "bool"}

\* int64 when every value is a whole number, float64 otherwise
NumericOf(vals) ==
    <<IF \A r \in 1..Len(vals) : vals[r].t = "num" /\ IsWhole(vals[r])
      THEN "int64" ELSE "float64",
      vals>>

\* pd.to_numeric(texts, errors="coerce"): <<dtype, values>>
ToNumeric(texts) == NumericOf([r \in 1..Len(texts) |-> ParseNum(texts[r])])

\* series.astype(str) on one cell of a column of the given dtype
SeriesText(dtype, v) ==
    CASE v.t = "nan" -> IF dtype = "datetime64" THEN TextNaT ELSE TextNan
      [] v.t = "str" -> v.s
      [] v.t = "ts" /\ v.d = 0 -> TsToText(v.n)
      [] v.t = "bool" -> IF v.n = 1 THEN TextTrue ELSE TextFalse
      [] v.t = "num" /\ IsWhole(v) ->
            IntToText(v.n) \o (IF dtype = "float64" THEN <<".", "0">> ELSE <<>>)

\* pd.to_datetime(series, errors="coerce") on one cell; a number counts the
\* nanoseconds since 1970-01-01
ToDatetimeCell(v) ==
    CASE v.t = "str" -> ParseDate(v.s)
      [] v.t = "ts" -> v
      [] v.t = "nan" -> NaN
      [] v.t = "num" /\ IsWhole(v) /\ v.n >= 0 -> TsAt(Ymd(1970, 1, 1), v.n)

\* pd.to_datetime(series, errors="coerce"): a boolean series raises TypeError
ToDatetimeRaises(dtype) == dtype = "bool"
ToDatetimeCol(vals) == [r \in 1..Len(vals) |-> ToDatetimeCell(vals[r])]

RECURSIVE Contains(_, _)
Contains(s, sub) ==
    IF Len(sub) > Len(s) THEN FALSE
    ELSE IF SubSeq(s, 1, Len(sub)) = sub THEN TRUE
    ELSE Contains(Tail(s), sub)

\* re.search(r"date|time|timestamp", str(col), flags=re.I)
HasDateWord(low) == Contains(low, <<"d", "a", "t", "e">>) \/ Contains(low, <<"t", "i", "m", "e">>)
DateLikeName(label) == HasDateWord(Lower(PyStr(label)))

\* the share of parsed values must exceed 0.6 = 6/10
CoerceNum == 6
CoerceDen == 10

\* a threshold met at exactly 0.6, which the code does not accept
AtLeastSixTenths(vals) ==
    /\ Len(vals) > 0
    /\ Cardinality({r \in 1..Len(vals) : vals[r].t = "num"}) * CoerceDen
          >= CoerceNum * Len(vals)

\* float(coerced.notna().mean()) if len(coerced) else 0.0, above 0.6
MostlyNumeric(vals) ==
    /\ Len(vals) > 0
    /\ Cardinality({r \in 1..Len(vals) : vals[r].t = "num"}) * CoerceDen
          > CoerceNum * Len(vals)

\* series.astype(str) without "," and "$", then without "%"
Cleaned(series) ==
    [r \in 1..Len(series) |-> Strip(SeriesText("object", series[r]), {",", "$", "%"})]

\* an object column: numeric when most cells parse, else a timestamp column
\* when its name says so
CoerceObject(label, series, coerced) ==
    IF MostlyNumeric(coerced[2]) THEN coerced
    ELSE IF DateLikeName(label) THEN <<"datetime64", ToDatetimeCol(series)>>
    ELSE <<"object", series>>

\* one column of _smart_coerce_dataframe: <<dtype, values>>
CoerceSeries(label, dtype, series) ==
    IF dtype # "object" THEN <<dtype, series>>
    ELSE CoerceObject(label, series, ToNumeric(Cleaned(series)))

CoerceColumn(tb, c) ==
    CoerceSeries(tb.cols[c], tb.dtypes[c], [r \in 1..NRows(tb) |-> tb.rows[r][c]])

\* _smart_coerce_dataframe(df): every column coerced, names and order kept
SmartCoerce(tb) ==
    FromColumns(tb.cols, [c \in 1..NCols(tb) |-> CoerceColumn(tb, c)], NRows(tb))

----------------------------------------------------------------------------
(* Plan steps and what a handler does *)

MaxSteps == 2                 \* longest plan explored
MaxCols == 50                 \* the width cap of the final compaction

\* op = str(step.get("op", "")).lower()
OpTag(step) == IF step.op.t = "absent" THEN <<>> ELSE Lower(PyStr(step.op))

\* what one pass through the loop body does: the table `working` names
\* afterwards, the log lines appended, whether an exception left
\* _execute_analysis_plan, whether one was swallowed by the handler's own
\* try/except, and whether `working` was rebound to a new object (as opposed
\* to the object it names being written in place or left alone)
Out(tb, lg, raised, caught, rebound) ==
    [tbl |-> tb, log |-> lg, raised |-> raised, caught |-> caught, rebound |-> rebound]

Skip(tb) == Out(tb, <<>>, FALSE, FALSE, FALSE)
Raise(tb) == Out(tb, <<>>, TRUE, FALSE, FALSE)
Swallow(tb) == Out(tb, <<>>, FALSE, TRUE, FALSE)
Rebind(tb, line) == Out(tb, <<line>>, FALSE, FALSE, TRUE)
InPlace(tb, line) == Out(tb, <<line>>, FALSE, FALSE, FALSE)

Min(a, b) == IF a < b THEN a ELSE b
Max(a, b) == IF a > b THEN a ELSE b

\* df.head(n): the first n rows; for a negative n all but the last -n rows
HeadRows(tb, n) ==
    LET k == IF n >= 0 THEN Min(n, NRows(tb)) ELSE Max(NRows(tb) + n, 0)
    IN  Table(tb.cols, tb.dtypes, SubSeq(tb.rows, 1, k))

\* step.get(key, default)
GetOr(v, default) == IF v.t = "absent" THEN default ELSE v

DefaultLimit == 10

\* op == "limit"
OpLimit(tb, step) ==
    LET n == PyInt(GetOr(step.n, NumV(DefaultLimit)))
    IN  IF ~n[1] THEN {Raise(tb)}
        ELSE {Rebind(HeadRows(tb, n[2]), <<"limit", <<NumV(n[2])>>>>)}

----------------------------------------------------------------------------
(* filter *)

TsLess(x, y) == x.n < y.n \/ (x.n = y.n /\ x.d < y.d)

\* x < y for two non-null values of one kind
ValLess(x, y) ==
    CASE x.t = "str" -> StrLess(x.s, y.s)
      [] x.t = "ts" -> TsLess(x, y)
      [] OTHER -> NumLess(x, y)

ValEq(x, y) ==
    CASE x.t = "str" -> x.s = y.s
      [] x.t = "ts" -> x.n = y.n /\ x.d = y.d
      [] OTHER -> NumEq(x, y)

\* the kinds Python compares with each other: numbers with booleans, text
\* with text, timestamps with timestamps
Kind(v) == IF v.t \in {"num", "bool"} THEN "num" ELSE v.t

CmpOps == {<<"=", "=">>, <<"!", "=">>, <<">">>, <<">", "=">>, <<"<">>, <<"<", "=">>}

\* x <op> y for two non-null values of one kind
CmpVal(optr, x, y) ==
    CASE optr = <<"=", "=">> -> ValEq(x, y)
      [] optr = <<"!", "=">> -> ~ValEq(x, y)
      [] optr = <<">">> -> ValLess(y, x)
      [] optr = <<">", "=">> -> ~ValLess(x, y)
      [] optr = <<"<">> -> ValLess(x, y)
      [] optr = <<"<", "=">> -> ~ValLess(y, x)

IsNull(v) == v.t \in {"nan", "none", "absent"}

\* the operand a comparison of a column of this dtype sees: a text compared
\* with a timestamp column is parsed as a timestamp when it spells one
Operand(dtype, right) ==
    IF dtype = "datetime64" /\ right.t = "str" /\ ParseDate(right.s).t = "ts"
    THEN ParseDate(right.s)
    ELSE right

\* does series <op> right raise TypeError: never for == and !=, nor against
\* None; a numeric or timestamp column raises against any operand of another
\* kind, an object column when one of its non-null cells is of another kind
CmpRaises(dtype, series, optr, right) ==
    LET y == Operand(dtype, right)
    IN  /\ optr \notin {<<"=", "=">>, <<"!", "=">>}
        /\ ~IsNull(y)
        /\ IF dtype = "object"
           THEN \E r \in 1..Len(series) : ~IsNull(series[r]) /\ Kind(series[r]) # Kind(y)
           ELSE IF dtype = "datetime64" THEN Kind(y) # "ts"
           ELSE Kind(y) # "num"

\* series <op> right, cell by cell, when it does not raise: a null on either
\* side and operands of different kinds are unequal and unordered
CmpMask(dtype, series, optr, right) ==
    LET y == Operand(dtype, right)
    IN  [r \in 1..Len(series) |->
            IF IsNull(y) \/ IsNull(series[r]) \/ Kind(series[r]) # Kind(y)
            THEN optr = <<"!", "=">>
            ELSE CmpVal(optr, series[r], y)]

\* the except branch of a comparison: string equality with str(val)
FallbackMask(dtype, series, optr, val, ci) ==
    LET eq == [r \in 1..Len(series) |->
                 IF ci THEN Lower(SeriesText(dtype, series[r])) = Lower(PyStr(val))
                 ELSE SeriesText(dtype, series[r]) = PyStr(val)]
    IN  IF optr = <<"!", "=">> THEN [r \in 1..Len(series) |-> ~eq[r]] ELSE eq

\* series.isin(vals)
IsinMask(dtype, series, vals) ==
    LET ys == IF dtype = "datetime64"
              THEN (IF \A i \in 1..Len(vals) :
                          vals[i].t = "str" /\ ParseDate(vals[i].s).t = "ts"
                    THEN {ParseDate(vals[i].s) : i \in 1..Len(vals)}
                    ELSE {})
              ELSE SeqToSet(vals)
    IN  [r \in 1..Len(series) |->
            /\ ~IsNull(series[r])
            /\ \E y \in ys : ~IsNull(y) /\ Kind(y) = Kind(series[r]) /\ ValEq(series[r], y)]

\* series.astype(str).str.contains(str(val), case=not ci, na=False), for a
\* val whose text has no regular-expression metacharacter
ContainsMask(dtype, series, val, ci) ==
    [r \in 1..Len(series) |->
        IF ci THEN Contains(Lower(SeriesText(dtype, series[r])), Lower(PyStr(val)))
        ELSE Contains(SeriesText(dtype, series[r]), PyStr(val))]

\* one condition of a filter: [skip |-> TRUE] when the condition is passed
\* over, [raise |-> TRUE] when it raises out of the handler, else its mask
CondResult(tb, cond) ==
    LET optr == Lower(PyStr(GetOr(cond.operator, StrV(<<"=", "=">>))))
        col == ResolveColumn(tb.cols, PyStr(cond.column))
        series == Column(tb, col)
        dtype == DtypeOf(tb, col)
        none == [r \in 1..NRows(tb) |-> TRUE]
        res(skip, raise, mask) == [skip |-> skip, raise |-> raise, mask |-> mask]
    IN  IF ~Truthy(col) \/ ~HasCol(tb, col) THEN res(TRUE, FALSE, none)
        ELSE IF optr \in CmpOps
        THEN LET right == AsNumber(cond.value)
             IN  IF CmpRaises(dtype, series, optr, right)
                 THEN res(FALSE, FALSE, FallbackMask(dtype, series, optr, cond.value, cond.ci))
                 ELSE res(FALSE, FALSE, CmpMask(dtype, series, optr, right))
        ELSE IF optr = <<"c", "o", "n", "t", "a", "i", "n", "s">>
        THEN res(FALSE, FALSE, ContainsMask(dtype, series, cond.value, cond.ci))
        ELSE IF optr \in {<<"i", "n">>, <<"n", "o", "t", "_", "i", "n">>}
        THEN LET src == IF cond.isList THEN cond.values ELSE <<cond.value>>
                 vals == [i \in 1..Len(src) |-> AsNumber(src[i])]
                 m == IsinMask(dtype, series, vals)
             IN  res(FALSE, FALSE,
                     IF optr = <<"n", "o", "t", "_", "i", "n">> THEN [r \in 1..NRows(tb) |-> ~m[r]] ELSE m)
        ELSE IF optr = <<"b", "e", "t", "w", "e", "e", "n">>
        THEN LET arr == IF cond.isList THEN cond.values ELSE <<NoneV, NoneV>>
             IN  IF Len(arr) < 2 THEN res(FALSE, TRUE, none)      \* arr[1]: IndexError
                 ELSE LET left == AsNumber(arr[1])
                          right == AsNumber(arr[2])
                      IN  IF \/ CmpRaises(dtype, series, <<">", "=">>, left)
                             \/ CmpRaises(dtype, series, <<"<", "=">>, right)
                          THEN res(FALSE, TRUE, none)             \* TypeError of between
                          ELSE res(FALSE, FALSE,
                                   [r \in 1..NRows(tb) |->
                                       /\ CmpMask(dtype, series, <<">", "=">>, left)[r]
                                       /\ CmpMask(dtype, series, <<"<", "=">>, right)[r]])
        ELSE res(TRUE, FALSE, none)

\* op == "filter": the conditions in order, the first that raises ends the call
OpFilter(tb, step) ==
    LET conds == step.conditions
        rs == [i \in 1..Len(conds) |-> CondResult(tb, conds[i])]
        keep(r) == \A i \in 1..Len(conds) : rs[i].mask[r]
        kept == TakeRows(tb, Positions(keep, 1, NRows(tb)))
    IN  IF \E i \in 1..Len(conds) : rs[i].raise THEN {Raise(tb)}
        ELSE {Rebind(kept, <<"filter rows", <<NumV(NRows(kept))>>>>)}

----------------------------------------------------------------------------
(* select, limit and the unknown op *)

\* the names of a list that resolve, resolved, in the order given:
\* [c for c in names if _resolve_column(df, str(c))], then each resolved again
RECURSIVE ResolveList(_, _)
ResolveList(cols, names) ==
    IF Len(names) = 0 THEN <<>>
    ELSE LET c == ResolveColumn(cols, PyStr(names[1]))
         IN  (IF Truthy(c) THEN <<c>> ELSE <<>>) \o ResolveList(cols, Tail(names))

\* for every label of the list, in order, the positions of all the columns
\* that carry it
RECURSIVE LabelPositions(_, _)
LabelPositions(cols, labels) ==
    IF Len(labels) = 0 THEN <<>>
    ELSE Positions(LAMBDA c : cols[c] = labels[1], 1, Len(cols))
         \o LabelPositions(cols, Tail(labels))

ProjectAt(tb, pos) ==
    Table([k \in 1..Len(pos) |-> tb.cols[pos[k]]],
          [k \in 1..Len(pos) |-> tb.dtypes[pos[k]]],
          [r \in 1..NRows(tb) |-> [k \in 1..Len(pos) |-> tb.rows[r][pos[k]]]])

\* the named columns in the order the table has them
ProjectInTableOrder(tb, labels) ==
    ProjectAt(tb, Positions(LAMBDA c : \E k \in 1..Len(labels) : tb.cols[c] = labels[k],
                            1, NCols(tb)))

\* df.loc[:, labels]: a label named twice is taken twice, a label that two
\* columns carry takes both
Project(tb, labels) == ProjectAt(tb, LabelPositions(tb.cols, labels))

\* op == "select"
OpSelect(tb, step) ==
    LET resolved == ResolveList(tb.cols, step.columns)
    IN  IF Len(resolved) = 0 THEN {Skip(tb)}
        ELSE IF \E k \in 1..Len(resolved) : ~HasCol(tb, resolved[k]) THEN {Raise(tb)}
        ELSE {Rebind(Project(tb, resolved), <<"select columns", resolved>>)}

----------------------------------------------------------------------------
(* compute *)

ArithOps == {<<"a", "d", "d">>, <<"s", "u", "b", "t", "r", "a", "c", "t">>, <<"m", "u", "l", "t", "i", "p", "l", "y">>, <<"d", "i", "v", "i", "d", "e">>}

Err == [t |-> "err", n |-> 0, d |-> 1, s |-> <<>>]

RECURSIVE Repeat(_, _)
Repeat(s, k) == IF k <= 0 THEN <<>> ELSE s \o Repeat(s, k - 1)

AsNum(v) == IF v.t = "bool" THEN NumV(v.n) ELSE v

\* x <operation> y on two Python objects; Err for a TypeError or a
\* ZeroDivisionError.  Text adds to text and repeats by a whole number.
ArithVal(operation, x, y) ==
    IF Kind(x) = "num" /\ Kind(y) = "num"
    THEN CASE operation = <<"a", "d", "d">> -> NumAdd(AsNum(x), AsNum(y))
           [] operation = <<"s", "u", "b", "t", "r", "a", "c", "t">> -> NumSub(AsNum(x), AsNum(y))
           [] operation = <<"m", "u", "l", "t", "i", "p", "l", "y">> -> NumMul(AsNum(x), AsNum(y))
           [] operation = <<"d", "i", "v", "i", "d", "e">> /\ AsNum(y).n # 0 ->
                 Frac(AsNum(x).n * AsNum(y).d, AsNum(x).d * AsNum(y).n)
           [] operation = <<"d", "i", "v", "i", "d", "e">> /\ AsNum(y).n = 0 -> Err
    ELSE IF x.t = "str" /\ y.t = "str" /\ operation = <<"a", "d", "d">> THEN StrV(x.s \o y.s)
    ELSE IF x.t = "str" /\ Kind(y) = "num" /\ IsWhole(AsNum(y)) /\ operation = <<"m", "u", "l", "t", "i", "p", "l", "y">>
         THEN StrV(Repeat(x.s, AsNum(y).n))
    ELSE IF Kind(x) = "num" /\ IsWhole(AsNum(x)) /\ y.t = "str" /\ operation = <<"m", "u", "l", "t", "i", "p", "l", "y">>
         THEN StrV(Repeat(y.s, AsNum(x).n))
    ELSE Err

\* an operand of compute: a column of the table or a Python scalar
ColOperand(dtype, values) == [isCol |-> TRUE, dtype |-> dtype, values |-> values, value |-> NaN]
ScalarOperand(v) == [isCol |-> FALSE, dtype |-> "scalar", values |-> <<>>, value |-> v]

\* the dtype an operand brings to a numeric result
OperandFloat(x) ==
    IF x.isCol THEN x.dtype = "float64" ELSE (x.value.t = "num" /\ ~IsWhole(x.value))

\* left <operation> right as pandas computes it: [ok, dtype, values].  A
\* numeric column takes numbers only (a zero divisor in a column is outside
\* the model); an object column is combined cell by cell, its nulls staying
\* null; two scalars give one Python value for every row.
Arith(operation, x, y, n) ==
    LET cell(o, r) == IF o.isCol THEN o.values[r] ELSE o.value
        numeric(o) == IF o.isCol THEN IsNumericDtype(o.dtype) ELSE Kind(o.value) = "num"
        object(o) == o.isCol /\ o.dtype = "object"
        fail == [ok |-> FALSE, dtype |-> "object", values |-> <<>>]
        one(r) == IF IsNull(cell(x, r)) \/ IsNull(cell(y, r)) THEN NaN
                  ELSE ArithVal(operation, cell(x, r), cell(y, r))
        vals == [r \in 1..n |-> one(r)]
    IN  IF ~x.isCol /\ ~y.isCol
        THEN LET v == ArithVal(operation, x.value, y.value)
             IN  IF v.t = "err" THEN fail
                 ELSE [ok |-> TRUE,
                       dtype |-> IF v.t = "str" THEN "object"
                                 ELSE IF IsWhole(v) /\ operation # <<"d", "i", "v", "i", "d", "e">> THEN "int64"
                                 ELSE "float64",
                       values |-> [r \in 1..n |-> v]]
        ELSE IF numeric(x) /\ numeric(y)
        THEN [ok |-> TRUE,
              dtype |-> IF operation = <<"d", "i", "v", "i", "d", "e">> \/ OperandFloat(x) \/ OperandFloat(y)
                        THEN "float64" ELSE "int64",
              values |-> vals]
        ELSE IF (object(x) \/ object(y))
                /\ (x.isCol => object(x) \/ numeric(x))
                /\ (y.isCol => object(y) \/ numeric(y))
                /\ ~(\E r \in 1..n : (~x.isCol /\ IsNull(x.value)) \/ (~y.isCol /\ IsNull(y.value)))
                /\ \A r \in 1..n : vals[r].t # "err"
        THEN [ok |-> TRUE, dtype |-> "object", values |-> vals]
        ELSE fail

\* one side of a compute step: <<raises KeyError, operand>>
ComputeOperand(tb, spec) ==
    LET col == IF Truthy(spec.column)
               THEN ResolveColumn(tb.cols, PyStr(spec.column)) ELSE NoneV
    IN  IF Truthy(col)
        THEN (IF HasCol(tb, col)
              THEN <<FALSE, ColOperand(DtypeOf(tb, col), Column(tb, col))>>
              ELSE <<TRUE, ScalarOperand(NoneV)>>)
        ELSE <<FALSE, ScalarOperand(AsNumber(spec.value))>>

OrDefault(v, default) == IF Truthy(v) THEN v ELSE default

\* op == "compute"
OpCompute(tb, step) ==
    LET new_col == StrV(PyStr(OrDefault(step.new_column, StrV(<<"n", "e", "w">>))))
        operation == Lower(PyStr(OrDefault(step.operation, StrV(<<"a", "d", "d">>))))
        left == ComputeOperand(tb, step.left)
        right == ComputeOperand(tb, step.right)
        res == Arith(operation, left[2], right[2], NRows(tb))
        line == <<"compute", <<new_col, StrV(operation)>>>>
    IN  IF left[1] \/ right[1] THEN {Raise(tb)}
        ELSE IF operation \notin ArithOps THEN {Out(tb, <<line>>, FALSE, FALSE, FALSE)}
        ELSE IF ~res.ok THEN {Swallow(tb)}
        ELSE {InPlace(SetColumn(tb, new_col, res.dtype, res.values), line)}

----------------------------------------------------------------------------
(* sorting: sort_values and nlargest *)

\* row a goes before row b under the keys `by` (positions of columns) and the
\* flags asc: nulls last whatever the direction, ties left to the caller
RECURSIVE RowBefore(_, _, _, _)
RowBefore(a, b, by, asc) ==
    IF Len(by) = 0 THEN FALSE
    ELSE LET x == a[by[1]]
             y == b[by[1]]
         IN  IF IsNull(x) /\ IsNull(y) THEN RowBefore(a, b, Tail(by), Tail(asc))
             ELSE IF IsNull(x) THEN FALSE
             ELSE IF IsNull(y) THEN TRUE
             ELSE IF ValEq(x, y) THEN RowBefore(a, b, Tail(by), Tail(asc))
             ELSE IF asc[1] THEN ValLess(x, y) ELSE ValLess(y, x)

\* the stable sort of the row positions: rows the keys do not tell apart keep
\* the order they had
SortedPositions(rows, by, asc) ==
    LET n == Len(rows)
        before(i, j) == \/ RowBefore(rows[i], rows[j], by, asc)
                        \/ (~RowBefore(rows[j], rows[i], by, asc) /\ i < j)
        rank == [i \in 1..n |-> 1 + Cardinality({j \in 1..n : j # i /\ before(j, i)})]
    IN  [k \in 1..n |-> CHOOSE i \in 1..n : rank[i] = k]

\* an order quicksort may leave: rows the key does not tell apart come out
\* in the reverse of the order they had; rows with a null key are not
\* passed to argsort and keep their order at the end
TiesReversedPositions(rows, by, asc) ==
    LET n == Len(rows)
        before(i, j) == \/ RowBefore(rows[i], rows[j], by, asc)
                        \/ /\ ~RowBefore(rows[j], rows[i], by, asc)
                           /\ IF IsNull(rows[i][by[1]]) THEN i < j ELSE i > j
        rank == [i \in 1..n |-> 1 + Cardinality({j \in 1..n : j # i /\ before(j, i)})]
    IN  [k \in 1..n |-> CHOOSE i \in 1..n : rank[i] = k]

\* DataFrame.sort_values(by, ascending) with the default kind="quicksort":
\* several keys go through lexsort_indexer, which is stable; one key goes
\* through nargsort and numpy's argsort(kind="quicksort"), which is stable
\* on some builds and sizes only
SortValuesPositions(rows, by, asc) ==
    IF Len(by) = 1 /\ ~tiesKept THEN TiesReversedPositions(rows, by, asc)
    ELSE SortedPositions(rows, by, asc)

\* the cells of a column are of one kind, so that they can be ordered
Sortable(tb, c) ==
    \A r1, r2 \in 1..NRows(tb) :
        IsNull(tb.rows[r1][c]) \/ IsNull(tb.rows[r2][c])
        \/ Kind(tb.rows[r1][c]) = Kind(tb.rows[r2][c])

\* validate_ascending: a bool, or a list of bools, one per key
AscOk(asc, nkeys) ==
    /\ \A i \in 1..Len(asc.items) : asc.items[i].t = "bool"
    /\ asc.list => Len(asc.items) = nkeys

AscFlags(asc, nkeys) ==
    [i \in 1..nkeys |-> IF asc.list THEN asc.items[i].n = 1 ELSE asc.items[1].n = 1]

\* op == "sort": with no resolved key every column is a key, in order
OpSort(tb, step) ==
    LET by_resolved == ResolveList(tb.cols, step.by)
        by == IF Len(by_resolved) > 0 THEN by_resolved ELSE tb.cols
        ascending == IF step.ascending.list \/ step.ascending.items[1].t # "absent"
                     THEN step.ascending
                     ELSE [list |-> FALSE, items |-> <<BoolV(FALSE)>>]
        keys == [i \in 1..Len(by) |-> ColIdx(tb, by[i])]
    IN  IF \/ \E i \in 1..Len(by) : ~HasCol(tb, by[i])
           \/ ~AscOk(ascending, Len(by))
           \/ \E i \in 1..Len(by) : ~Sortable(tb, keys[i])
        THEN {Swallow(tb)}
        ELSE {Rebind(TakeRows(tb, SortValuesPositions(tb.rows, keys, AscFlags(ascending, Len(by)))),
                     <<"sort by", by \o ascending.items>>)}

DefaultK == 5

\* the first k rows whatever the column holds, which is not what nlargest does
FirstRows(tb, k, c) == HeadRows(tb, k)

\* df.nlargest(k, by): the k rows greatest in the column, greatest first,
\* equal values in the order they had, nulls after all values
NLargest(tb, k, c) ==
    IF k <= 0 THEN Table(tb.cols, tb.dtypes, <<>>)
    ELSE HeadRows(TakeRows(tb, SortedPositions(tb.rows, <<c>>, <<FALSE>>)), k)

\* op == "topk": working[by] of a name that is no column raises KeyError,
\* nlargest on a boolean column TypeError
OpTopk(tb, step) ==
    LET k == PyInt(GetOr(step.k, NumV(DefaultK)))
        by == IF Truthy(step.by) THEN ResolveColumn(tb.cols, PyStr(step.by)) ELSE NoneV
    IN  IF ~k[1] THEN {Raise(tb)}
        ELSE IF Truthy(by) /\ (~HasCol(tb, by) \/ DtypeOf(tb, by) = "bool")
        THEN {Out(HeadRows(tb, k[2]), <<<<"topk fallback head", <<NumV(k[2])>>>>>>,
                  FALSE, TRUE, TRUE)}
        ELSE IF Truthy(by) /\ IsNumericDtype(DtypeOf(tb, by))
        THEN {Rebind(NLargest(tb, k[2], ColIdx(tb, by)), <<"topk", <<NumV(k[2]), by>>>>)}
        ELSE {Rebind(HeadRows(tb, k[2]),
                     <<"topk", <<NumV(k[2]), IF Truthy(by) THEN by ELSE StrV(<<"h", "e", "a", "d">>)>>>>)}

----------------------------------------------------------------------------
(* groupby_agg *)

AggFuncs == {<<"s", "u", "m">>, <<"m", "e", "a", "n">>, <<"c", "o", "u", "n", "t">>, <<"m", "i", "n">>, <<"m", "a", "x">>, <<"m", "e", "d", "i", "a", "n">>}

RECURSIVE SumVals(_)
SumVals(vs) == IF Len(vs) = 0 THEN NumV(0) ELSE NumAdd(AsNum(vs[1]), SumVals(Tail(vs)))

\* the non-null cells of a list, in order
RECURSIVE NonNull(_)
NonNull(vs) ==
    IF Len(vs) = 0 THEN <<>>
    ELSE (IF IsNull(vs[1]) THEN <<>> ELSE <<vs[1]>>) \o NonNull(Tail(vs))

LeastOf(vs) == vs[CHOOSE i \in 1..Len(vs) : \A j \in 1..Len(vs) : ~ValLess(vs[j], vs[i])]
GreatestOf(vs) == vs[CHOOSE i \in 1..Len(vs) : \A j \in 1..Len(vs) : ~ValLess(vs[i], vs[j])]

\* the middle of the sorted values, the mean of the two middle ones for an
\* even count
MedianOf(vs) ==
    LET n == Len(vs)
        rank(i) == 1 + Cardinality({j \in 1..n : ValLess(vs[j], vs[i]) \/ (ValEq(vs[j], vs[i]) /\ j < i)})
        at(k) == vs[CHOOSE i \in 1..n : rank(i) = k]
    IN  IF n % 2 = 1 THEN at((n + 1) \div 2)
        ELSE NumMul(NumAdd(at(n \div 2), at(n \div 2 + 1)), Frac(1, 2))

\* does the aggregation raise for a column of this dtype: text has no mean
\* or median, timestamps have no sum
AggRaises(dtype, func) ==
    \/ dtype = "object" /\ func \in {<<"m", "e", "a", "n">>, <<"m", "e", "d", "i", "a", "n">>}
    \/ dtype = "datetime64" /\ func = <<"s", "u", "m">>

\* one aggregate over the cells of a group, nulls skipped (sum of text and
\* mean or median of timestamps are outside the model)
AggVal(dtype, func, cells) ==
    LET vs == NonNull(cells)
    IN  CASE func = <<"c", "o", "u", "n", "t">> -> NumV(Len(vs))
          [] func = <<"s", "u", "m">> /\ IsNumericDtype(dtype) -> SumVals(vs)
          [] func = <<"m", "e", "a", "n">> /\ IsNumericDtype(dtype) ->
                IF Len(vs) = 0 THEN NaN ELSE NumMul(SumVals(vs), Frac(1, Len(vs)))
          [] func = <<"m", "e", "d", "i", "a", "n">> /\ IsNumericDtype(dtype) ->
                IF Len(vs) = 0 THEN NaN ELSE MedianOf(vs)
          [] func = <<"m", "i", "n">> -> IF Len(vs) = 0 THEN NaN ELSE LeastOf(vs)
          [] func = <<"m", "a", "x">> -> IF Len(vs) = 0 THEN NaN ELSE GreatestOf(vs)

AggDtype(dtype, func, vals) ==
    CASE func = <<"c", "o", "u", "n", "t">> -> "int64"
      [] func \in {<<"m", "e", "a", "n">>, <<"m", "e", "d", "i", "a", "n">>} -> "float64"
      [] dtype = "int64" /\ \E i \in 1..Len(vals) : IsNull(vals[i]) -> "float64"
      [] OTHER -> dtype

\* str.strip("_")
RECURSIVE StripLeft(_, _)
StripLeft(s, ch) == IF Len(s) > 0 /\ s[1] = ch THEN StripLeft(Tail(s), ch) ELSE s
RECURSIVE StripRight(_, _)
StripRight(s, ch) ==
    IF Len(s) > 0 /\ s[Len(s)] = ch THEN StripRight(SubSeq(s, 1, Len(s) - 1), ch) ELSE s
StripBoth(s, ch) == StripRight(StripLeft(s, ch), ch)

\* "_".join([str(c) for c in col]).strip("_") for the pair (column, function)
FlatName(col, func) == StrV(StripBoth(PyStr(col) \o <<"_">> \o func, "_"))

\* one entry of aggs_conf: its resolved column, its function, and whether
\* agg_map takes it
AggEntryOf(col, func) ==
    [col |-> col, func |-> func, keep |-> Truthy(col) /\ func \in AggFuncs]
AggEntry(cols, a) ==
    AggEntryOf(ResolveColumn(cols, PyStr(a.column)),
               Lower(PyStr(GetOr(a.agg, StrV(<<"s", "u", "m">>)))))

\* the (column, function) pairs of the entries agg_map takes, in order
RECURSIVE KeptPairs(_)
KeptPairs(entries) ==
    IF Len(entries) = 0 THEN <<>>
    ELSE (IF entries[1].keep THEN <<<<entries[1].col, entries[1].func>>>> ELSE <<>>)
         \o KeptPairs(Tail(entries))

\* agg_map[col]: the pairs of one column, in order
RECURSIVE PairsOf(_, _)
PairsOf(pairs, col) ==
    IF Len(pairs) = 0 THEN <<>>
    ELSE (IF pairs[1][1] = col THEN <<pairs[1]>> ELSE <<>>) \o PairsOf(Tail(pairs), col)

\* dict order: the columns in the order they first appear, each with its
\* functions in order
RECURSIVE DictOrder(_, _)
DictOrder(pairs, i) ==
    IF i > Len(pairs) THEN <<>>
    ELSE (IF \A j \in 1..(i - 1) : pairs[j][1] # pairs[i][1]
          THEN PairsOf(pairs, pairs[i][1]) ELSE <<>>)
         \o DictOrder(pairs, i + 1)

\* agg_map as the list of its (column, function) pairs
AggPairs(tb, aggs) ==
    DictOrder(KeptPairs([i \in 1..Len(aggs) |-> AggEntry(tb.cols, aggs[i])]), 1)

\* the group key of every row: its cells in the key columns
KeyTuples(tb, keys) ==
    [r \in 1..NRows(tb) |-> [k \in 1..Len(keys) |-> tb.rows[r][keys[k]]]]

\* the positions where a key appears for the first time
FirstOf(ks) == Positions(LAMBDA r : \A q \in 1..(r - 1) : ks[q] # ks[r], 1, Len(ks))

\* the row positions with this key
Members(ks, key) == Positions(LAMBDA r : ks[r] = key, 1, Len(ks))

Permute(s, order) == [g \in 1..Len(order) |-> s[order[g]]]
AllAscending(keys) == [k \in 1..Len(keys) |-> TRUE]

\* the first row position of every group, groups in sorted key order, a null
\* key last (dropna=False)
SortHeads(tb, keys, heads) ==
    Permute(heads,
            SortedPositions([h \in 1..Len(heads) |-> tb.rows[heads[h]]],
                            keys, AllAscending(keys)))
GroupHeads(tb, keys, ks) == SortHeads(tb, keys, FirstOf(ks))

CellsAt(tb, pos, c) == [m \in 1..Len(pos) |-> tb.rows[pos[m]][c]]

\* an aggregate taken over the whole column for every group, which is not
\* what groupby does
WholeColumn(tb, ks, heads, pair) ==
    [g \in 1..Len(heads) |->
        AggVal(DtypeOf(tb, pair[1]), pair[2],
               CellsAt(tb, [r \in 1..NRows(tb) |-> r], ColIdx(tb, pair[1])))]

\* one aggregated column: the aggregate of every group, in group order
AggColumn(tb, ks, heads, pair) ==
    [g \in 1..Len(heads) |->
        AggVal(DtypeOf(tb, pair[1]), pair[2],
               CellsAt(tb, Members(ks, ks[heads[g]]), ColIdx(tb, pair[1])))]

\* grouped.reset_index(): the key columns, then the aggregated columns
GroupedWith(tb, labels, keys, ks, heads, pairs, agg) ==
    Table(labels,
          [k \in 1..Len(keys) |-> tb.dtypes[keys[k]]]
             \o [p \in 1..Len(pairs) |->
                    AggDtype(DtypeOf(tb, pairs[p][1]), pairs[p][2], agg[p])],
          [g \in 1..Len(heads) |-> ks[heads[g]] \o [p \in 1..Len(pairs) |-> agg[p][g]]])
GroupedAt(tb, labels, keys, ks, heads, pairs) ==
    GroupedWith(tb, labels, keys, ks, heads, pairs,
                [p \in 1..Len(pairs) |-> AggColumn(tb, ks, heads, pairs[p])])
GroupedOn(tb, labels, keys, ks, pairs) ==
    GroupedAt(tb, labels, keys, ks, GroupHeads(tb, keys, ks), pairs)
Grouped(tb, labels, keys, pairs) ==
    GroupedOn(tb, labels, keys, KeyTuples(tb, keys), pairs)

\* working.groupby(by_resolved, dropna=False).agg(agg_map) and reset_index()
\* raise: a key or an aggregated label that is no column (KeyError), a
\* function twice on one column (SpecificationError), a function the column's
\* dtype does not have (TypeError), a key column that is aggregated or an
\* aggregate named as a key (reset_index cannot insert)
GroupbyRaises(tb, by_resolved, pairs, names) ==
    \/ \E k \in 1..Len(by_resolved) : ~HasCol(tb, by_resolved[k])
    \/ \E p \in 1..Len(pairs) : ~HasCol(tb, pairs[p][1])
    \/ \E p, q \in 1..Len(pairs) : p # q /\ pairs[p] = pairs[q]
    \/ \E p \in 1..Len(pairs) : AggRaises(DtypeOf(tb, pairs[p][1]), pairs[p][2])
    \/ \E k \in 1..Len(by_resolved), p \in 1..Len(pairs) :
           by_resolved[k] = names[p] \/ by_resolved[k] = pairs[p][1]

GroupbyNamed(tb, by_resolved, pairs, names) ==
    IF Len(by_resolved) = 0 \/ Len(pairs) = 0 THEN {Skip(tb)}
    ELSE IF GroupbyRaises(tb, by_resolved, pairs, names) THEN {Raise(tb)}
    ELSE {Rebind(Grouped(tb, by_resolved \o names,
                         [k \in 1..Len(by_resolved) |-> ColIdx(tb, by_resolved[k])],
                         pairs),
                 <<"groupby", by_resolved \o names>>)}

GroupbyPairs(tb, by_resolved, pairs) ==
    GroupbyNamed(tb, by_resolved, pairs,
                 [p \in 1..Len(pairs) |-> FlatName(pairs[p][1], pairs[p][2])])

\* op == "groupby_agg": nothing guards the call, an exception leaves
\* _execute_analysis_plan
OpGroupbyAgg(tb, step) ==
    GroupbyPairs(tb, ResolveList(tb.cols, step.by), AggPairs(tb, step.aggregations))

----------------------------------------------------------------------------
(* rename *)

\* safe_map: the (key, value) pairs whose key is a column or resolves to one
SafeMap(tb, mapping) ==
    LET key(i) == IF mapping[i][1].t = "str" /\ HasCol(tb, mapping[i][1]) THEN mapping[i][1]
                  ELSE ResolveColumn(tb.cols, PyStr(mapping[i][1]))
        kept == Positions(LAMBDA i : Truthy(key(i)), 1, Len(mapping))
    IN  [k \in 1..Len(kept) |-> <<key(kept[k]), StrV(PyStr(mapping[kept[k]][2]))>>]

\* df.rename(columns=safe_map): a later pair replaces an earlier one with the
\* same key
RenameLabel(safe_map, label) ==
    LET hits == {i \in 1..Len(safe_map) : safe_map[i][1] = label}
    IN  IF hits = {} THEN label
        ELSE safe_map[CHOOSE i \in hits : \A j \in hits : j <= i][2]

\* op == "rename"
OpRename(tb, step) ==
    LET safe_map == SafeMap(tb, step.mapping)
    IN  IF Len(safe_map) = 0 THEN {Skip(tb)}
        ELSE {Rebind(Table([c \in 1..NCols(tb) |-> RenameLabel(safe_map, tb.cols[c])],
                           tb.dtypes, tb.rows),
                     <<"rename columns", [i \in 1..Len(safe_map) |-> safe_map[i][2]]>>)}

----------------------------------------------------------------------------
(* pivot *)

\* the positions of the first appearance of every non-null value
FirstSeen(vs) ==
    Positions(LAMBDA i : ~IsNull(vs[i]) /\ \A j \in 1..(i - 1) : vs[j] # vs[i], 1, Len(vs))

\* the distinct non-null values of a list, sorted
SortedAt(vs, heads) ==
    Permute(heads,
            SortedPositions([h \in 1..Len(heads) |-> <<vs[heads[h]]>>], <<1>>, <<TRUE>>))
SortedDistinct(vs) == Permute(vs, SortedAt(vs, FirstSeen(vs)))

\* what pd.pivot_table does not know: a label that is no column, an aggfunc
\* that is no function
PivotBad(tb, index, columns, values, aggfunc) ==
    \/ ~HasCol(tb, index) \/ ~HasCol(tb, columns) \/ ~HasCol(tb, values)
    \/ aggfunc.t # "str" \/ aggfunc.s \notin AggFuncs

\* the rows with a key on both axes (dropna=True)
LiveRows(tb, ic, cc) ==
    Positions(LAMBDA r : ~IsNull(tb.rows[r][ic]) /\ ~IsNull(tb.rows[r][cc]), 1, NRows(tb))

\* the live rows of one cell of the pivot
PivotHits(tb, ic, cc, live, x, y) ==
    SelectSeq(live, LAMBDA r : tb.rows[r][ic] = x /\ tb.rows[r][cc] = y)

\* one cell: the aggregate of its rows, fill_value (NaN for None) without any
PivotCell(tb, vc, func, fill, hit) ==
    IF Len(hit) = 0 THEN (IF IsNull(fill) THEN NaN ELSE fill)
    ELSE AggVal(tb.dtypes[vc], func, CellsAt(tb, hit, vc))

PivotBody(tb, ic, cc, vc, func, fill, live, idx, labels) ==
    [i \in 1..Len(idx) |->
        [l \in 1..Len(labels) |->
            PivotCell(tb, vc, func, fill,
                      PivotHits(tb, ic, cc, live, idx[i], labels[l]))]]

PivotDtype(dtype, body, l) ==
    IF dtype = "int64" /\ \A i \in 1..Len(body) : body[i][l].t = "num" /\ IsWhole(body[i][l])
    THEN "int64" ELSE "float64"

\* pivoted.reset_index(): the index column, then one column per label
Pivoted(tb, index, ic, vc, idx, labels, body) ==
    Table(<<index>> \o labels,
          <<tb.dtypes[ic]>> \o [l \in 1..Len(labels) |-> PivotDtype(tb.dtypes[vc], body, l)],
          [i \in 1..Len(idx) |-> <<idx[i]>> \o body[i]])

\* reset_index cannot insert the index column when a label already has its name
PivotedBy(tb, index, ic, cc, vc, func, fill, live, idx, labels) ==
    IF \E l \in 1..Len(labels) : labels[l] = index THEN {Swallow(tb)}
    ELSE {Rebind(Pivoted(tb, index, ic, vc, idx, labels,
                         PivotBody(tb, ic, cc, vc, func, fill, live, idx, labels)),
                 <<"pivot table", <<>>>>)}
PivotedOn(tb, index, ic, cc, vc, func, fill, live) ==
    PivotedBy(tb, index, ic, cc, vc, func, fill, live,
              SortedDistinct(CellsAt(tb, live, ic)),
              SortedDistinct(CellsAt(tb, live, cc)))
PivotedAt(tb, index, ic, cc, vc, func, fill) ==
    PivotedOn(tb, index, ic, cc, vc, func, fill, LiveRows(tb, ic, cc))

\* Modelled: index, columns and values each name one column by its exact
\* label, three different columns whose keys can be ordered, and aggfunc is
\* "sum" over a numeric values column; anything unknown to pivot_table raises
\* inside the try
PivotWith(tb, index, columns, values, aggfunc, fill) ==
    CASE {index.t, columns.t, values.t} = {"str"}
         /\ PivotBad(tb, index, columns, values, aggfunc) -> {Swallow(tb)}
      [] /\ ~PivotBad(tb, index, columns, values, aggfunc)
         /\ Sortable(tb, ColIdx(tb, index)) /\ Sortable(tb, ColIdx(tb, columns))
         /\ aggfunc.s = <<"s", "u", "m">> /\ IsNumericDtype(DtypeOf(tb, values))
         /\ Cardinality({index, columns, values}) = 3
         /\ DtypeOf(tb, columns) \in {"int64", "object"} ->
            PivotedAt(tb, index, ColIdx(tb, index), ColIdx(tb, columns),
                      ColIdx(tb, values), aggfunc.s, fill)

\* op == "pivot"
OpPivot(tb, step) ==
    PivotWith(tb, step.index, step.columns, step.values,
              GetOr(step.aggfunc, StrV(<<"s", "u", "m">>)), step.fill_value)

----------------------------------------------------------------------------
(* dropna, fillna, dedupe *)

\* the labels a subset names: all of them must be columns (KeyError)
SubsetCols(tb, subset) ==
    IF subset.given THEN [i \in 1..Len(subset.items) |-> ColIdx(tb, subset.items[i])]
    ELSE [c \in 1..NCols(tb) |-> c]

SubsetOk(tb, subset) ==
    subset.given => \A i \in 1..Len(subset.items) : HasCol(tb, subset.items[i])

\* op == "dropna"
OpDropna(tb, step) ==
    LET how == GetOr(step.how, StrV(<<"a", "n", "y">>))
        cs == SubsetCols(tb, step.subset)
        null(r, i) == IsNull(tb.rows[r][cs[i]])
        keep(r) == IF how.s = <<"a", "n", "y">> THEN \A i \in 1..Len(cs) : ~null(r, i)
                   ELSE \E i \in 1..Len(cs) : ~null(r, i)
    IN  IF ~SubsetOk(tb, step.subset) \/ how.t # "str" \/ how.s \notin {<<"a", "n", "y">>, <<"a", "l", "l">>}
        THEN {Swallow(tb)}
        ELSE {Rebind(TakeRows(tb, Positions(keep, 1, NRows(tb))),
                     <<"dropna", step.subset.items \o <<how>>>>)}

\* the dtype of a column after its nulls are filled with v: a number keeps a
\* float column float, anything else leaves or makes an object column
FilledDtype(dtype, vals, v) ==
    IF \A r \in 1..Len(vals) : ~IsNull(vals[r]) THEN dtype
    ELSE IF dtype = "float64" /\ Kind(v) = "num" THEN "float64"
    ELSE IF dtype = "datetime64" /\ v.t = "ts" THEN "datetime64"
    ELSE "object"

\* the value a fill gives a column: the scalar, or the dict's entry for the
\* label (Absent when the dict has none)
FillFor(value, label) ==
    IF ~value.isDict THEN value.scalar
    ELSE LET hits == {i \in 1..Len(value.items) : value.items[i][1] = label}
         IN  IF hits = {} THEN Absent
             ELSE value.items[CHOOSE i \in hits : \A j \in hits : j <= i][2]

\* op == "fillna": value None raises ValueError
OpFillna(tb, step) ==
    LET value == step.value
        v(c) == FillFor(value, tb.cols[c])
        col(c) == [r \in 1..NRows(tb) |-> tb.rows[r][c]]
        filled == Table(tb.cols,
                        [c \in 1..NCols(tb) |->
                            IF IsNull(v(c)) THEN tb.dtypes[c]
                            ELSE FilledDtype(tb.dtypes[c], col(c), v(c))],
                        [r \in 1..NRows(tb) |->
                            [c \in 1..NCols(tb) |->
                                IF IsNull(tb.rows[r][c]) /\ ~IsNull(v(c)) THEN v(c)
                                ELSE tb.rows[r][c]]])
    IN  IF ~value.isDict /\ IsNull(value.scalar) THEN {Swallow(tb)}
        ELSE {Rebind(filled, <<"fillna applied", <<>>>>)}

\* op == "dedupe"
OpDedupe(tb, step) ==
    LET keep == GetOr(step.keep, StrV(<<"f", "i", "r", "s", "t">>))
        cs == SubsetCols(tb, step.subset)
        key(r) == [i \in 1..Len(cs) |-> tb.rows[r][cs[i]]]
        kept(r) == CASE keep = StrV(<<"f", "i", "r", "s", "t">>) -> \A q \in 1..(r - 1) : key(q) # key(r)
                     [] keep = StrV(<<"l", "a", "s", "t">>) -> \A q \in (r + 1)..NRows(tb) : key(q) # key(r)
                     [] OTHER -> \A q \in 1..NRows(tb) : q = r \/ key(q) # key(r)
    IN  IF ~SubsetOk(tb, step.subset)
           \/ keep \notin {StrV(<<"f", "i", "r", "s", "t">>), StrV(<<"l", "a", "s", "t">>), BoolV(FALSE)}
        THEN {Swallow(tb)}
        ELSE {Rebind(TakeRows(tb, Positions(kept, 1, NRows(tb))),
                     <<"dedupe", step.subset.items \o <<keep>>>>)}

----------------------------------------------------------------------------
(* cast, date_parse, date_trunc *)

\* _parse_dtype(name)
ParseDtype(name) ==
    LET t == Lower(PyStr(name))
    IN  IF t \in {<<"i", "n", "t">>, <<"i", "n", "t", "6", "4">>, <<"i", "n", "t", "e", "g", "e", "r">>} THEN "int64"
        ELSE IF t \in {<<"f", "l", "o", "a", "t">>, <<"f", "l", "o", "a", "t", "6", "4">>, <<"d", "o", "u", "b", "l", "e">>} THEN "float64"
        ELSE IF t \in {<<"s", "t", "r">>, <<"s", "t", "r", "i", "n", "g">>, <<"t", "e", "x", "t">>} THEN "string"
        ELSE IF t \in {<<"b", "o", "o", "l">>, <<"b", "o", "o", "l", "e", "a", "n">>} THEN "boolean"
        ELSE IF t \in {<<"d", "a", "t", "e", "t", "i", "m", "e">>, <<"t", "i", "m", "e", "s", "t", "a", "m", "p">>, <<"d", "a", "t", "e">>} THEN "datetime64[ns]"
        ELSE "None"

\* series.astype(target, errors="ignore") for the two numeric targets:
\* <<dtype, values>>, the series itself when a cell cannot be converted
AsType(dtype, vals, target) ==
    LET n == Len(vals)
        intOk(v) == ~IsNull(v) /\ v.t \in {"num", "bool", "str"} /\ PyInt(v)[1]
        floatOf(v) == CASE IsNull(v) -> NaN
                        [] v.t \in {"num", "bool"} -> Frac(v.n, v.d)
                        [] v.t = "str" ->
                              IF Len(Trim(v.s)) = 0 THEN Err ELSE
                              LET p == ParseNum(Trim(v.s))
                              IN  IF p.t = "num" THEN p ELSE Err
                        [] OTHER -> Err
    IN  CASE target = "int64" /\ dtype \in {"int64", "float64", "bool", "object"} ->
                IF \A r \in 1..n : intOk(vals[r])
                THEN <<"int64", [r \in 1..n |-> NumV(PyInt(vals[r])[2])]>>
                ELSE <<dtype, vals>>
          [] target = "float64" /\ dtype \in {"int64", "float64", "bool", "object"} ->
                IF \A r \in 1..n : floatOf(vals[r]) # Err
                THEN <<"float64", [r \in 1..n |-> floatOf(vals[r])]>>
                ELSE <<dtype, vals>>

\* the loop of the cast handler from entry i on: [tbl, raised]; the columns
\* already cast stay cast when a later entry raises
RECURSIVE CastLoop(_, _, _)
CastLoop(tb, types, i) ==
    IF i > Len(types) THEN [tbl |-> tb, raised |-> FALSE]
    ELSE LET col == ResolveColumn(tb.cols, PyStr(types[i][1]))
             target == ParseDtype(types[i][2])
             vals == Column(tb, col)
             dt == DtypeOf(tb, col)
         IN  IF ~Truthy(col) THEN CastLoop(tb, types, i + 1)
             ELSE IF ~HasCol(tb, col) THEN [tbl |-> tb, raised |-> TRUE]      \* KeyError
             ELSE IF target = "datetime64[ns]"
             THEN (IF ToDatetimeRaises(dt) THEN [tbl |-> tb, raised |-> TRUE]
                   ELSE CastLoop(SetColumn(tb, col, "datetime64", ToDatetimeCol(vals)),
                                 types, i + 1))
             ELSE IF target # "None"
             THEN LET res == AsType(dt, vals, target)
                  IN  CastLoop(SetColumn(tb, col, res[1], res[2]), types, i + 1)
             ELSE CastLoop(tb, types, i + 1)

\* op == "cast"
OpCast(tb, step) ==
    LET done == CastLoop(tb, step.types, 1)
    IN  IF done.raised THEN {Out(done.tbl, <<>>, FALSE, TRUE, FALSE)}
        ELSE {InPlace(done.tbl, <<"cast columns", [i \in 1..Len(step.types) |-> step.types[i][1]]>>)}

RECURSIVE DateParseLoop(_, _, _)
DateParseLoop(tb, columns, i) ==
    IF i > Len(columns) THEN tb
    ELSE LET col == ResolveColumn(tb.cols, PyStr(columns[i]))
         IN  IF Truthy(col) /\ HasCol(tb, col) /\ ~ToDatetimeRaises(DtypeOf(tb, col))
             THEN DateParseLoop(SetColumn(tb, col, "datetime64", ToDatetimeCol(Column(tb, col))),
                                columns, i + 1)
             ELSE DateParseLoop(tb, columns, i + 1)

\* op == "date_parse": the log line is written whatever happened
OpDateParse(tb, step) ==
    {InPlace(DateParseLoop(tb, step.columns, 1), <<"date_parse", step.columns>>)}

\* 0 = Sunday .. 6 = Saturday
DayOfWeek(y, m, dd) ==
    LET t == <<0, 3, 2, 5, 0, 3, 5, 1, 4, 6, 2, 4>>
        yy == IF m < 3 THEN y - 1 ELSE y
    IN  (yy + (yy \div 4) - (yy \div 100) + (yy \div 400) + t[m] + dd) % 7

RECURSIVE DaysBack(_, _, _, _)
DaysBack(y, m, dd, k) ==
    IF k = 0 THEN Ymd(y, m, dd)
    ELSE IF dd > 1 THEN DaysBack(y, m, dd - 1, k - 1)
    ELSE IF m > 1 THEN DaysBack(y, m - 1, DaysIn(y, m - 1), k - 1)
    ELSE DaysBack(y - 1, 12, 31, k - 1)

\* the start of the period of frequency f holding the timestamp
TruncCell(f, v) ==
    LET y == v.n \div 10000
        m == (v.n \div 100) % 100
        dd == v.n % 100
    IN  IF v.t # "ts" THEN NaN
        ELSE CASE f = <<"d", "a", "y">> -> TsV(v.n)
               [] f = <<"w", "e", "e", "k">> -> TsV(DaysBack(y, m, dd, (DayOfWeek(y, m, dd) + 6) % 7))
               [] f = <<"m", "o", "n", "t", "h">> -> TsV(Ymd(y, m, 1))
               [] f = <<"q", "u", "a", "r", "t", "e", "r">> -> TsV(Ymd(y, 3 * ((m - 1) \div 3) + 1, 1))
               [] f = <<"y", "e", "a", "r">> -> TsV(Ymd(y, 1, 1))

\* _date_trunc(series, freq): <<dtype, values>>; the series itself for an
\* unknown frequency or when the conversion raises
DateTrunc(dtype, vals, freq) ==
    LET f == Lower(freq)
    IN  IF ToDatetimeRaises(dtype) \/ f \notin {<<"d", "a", "y">>, <<"w", "e", "e", "k">>, <<"m", "o", "n", "t", "h">>, <<"q", "u", "a", "r", "t", "e", "r">>, <<"y", "e", "a", "r">>}
        THEN <<dtype, vals>>
        ELSE <<"datetime64", [r \in 1..Len(vals) |-> TruncCell(f, ToDatetimeCell(vals[r]))]>>

\* op == "date_trunc"
OpDateTrunc(tb, step) ==
    LET column == IF Truthy(step.column) THEN ResolveColumn(tb.cols, PyStr(step.column))
                  ELSE NoneV
        freq == GetOr(step.freq, StrV(<<"m", "o", "n", "t", "h">>))
        res == DateTrunc(DtypeOf(tb, column), Column(tb, column), PyStr(freq))
    IN  IF Truthy(column) /\ HasCol(tb, column)
        THEN {InPlace(SetColumn(tb, column, res[1], res[2]), <<"date_trunc", <<column, freq>>>>)}
        ELSE {Skip(tb)}

----------------------------------------------------------------------------
(* window_rank, cumsum, pct_change *)

\* the resolved names of a `by` / `partition_by` entry: a single text counts
\* as a list of one
ByResolved(tb, by) == ResolveList(tb.cols, by)

\* for every row the positions of the rows of its group, in order; no
\* positions for a row with a null key (groupby drops it)
GroupOf(tb, keys, r) ==
    LET key(q) == [k \in 1..Len(keys) |-> tb.rows[q][keys[k]]]
    IN  IF \E k \in 1..Len(keys) : IsNull(tb.rows[r][keys[k]]) THEN <<>>
        ELSE Positions(LAMBDA q : key(q) = key(r), 1, NRows(tb))

Whole(tb) == [r \in 1..NRows(tb) |-> r]

\* rank(method="dense"): one more than the number of distinct values of the
\* group that come before the cell's value; a null cell has no rank
DenseRank(vals, group, r, ascending) ==
    LET before(q) == IF ascending THEN ValLess(vals[q], vals[r]) ELSE ValLess(vals[r], vals[q])
        ahead == {vals[group[g]] : g \in {h \in 1..Len(group) :
                                            ~IsNull(vals[group[h]]) /\ before(group[h])}}
    IN  IF IsNull(vals[r]) \/ Len(group) = 0 THEN NaN ELSE NumV(1 + Cardinality(ahead))

\* op == "window_rank" (ranking a text column within partitions is outside
\* the model)
OpWindowRank(tb, step) ==
    LET by == IF Truthy(step.by) THEN ResolveColumn(tb.cols, PyStr(step.by)) ELSE NoneV
        partition_resolved == ByResolved(tb, step.partition_by)
        rank_col == StrV(PyStr(OrDefault(step.rank_column, StrV(<<"r", "a", "n", "k">>))))
        ascending == Truthy(GetOr(step.ascending, BoolV(FALSE)))
        c == ColIdx(tb, by)
        vals == Column(tb, by)
        keys == [k \in 1..Len(partition_resolved) |-> ColIdx(tb, partition_resolved[k])]
        group(r) == IF Len(keys) = 0 THEN Whole(tb) ELSE GroupOf(tb, keys, r)
        ranks == [r \in 1..NRows(tb) |-> DenseRank(vals, group(r), r, ascending)]
    IN  IF ~(Truthy(by) /\ HasCol(tb, by)) THEN {Skip(tb)}
        ELSE CASE \/ ~Sortable(tb, c)
                  \/ \E k \in 1..Len(partition_resolved) : ~HasCol(tb, partition_resolved[k]) ->
                    {Swallow(tb)}
               [] Sortable(tb, c)
                  /\ (\A k \in 1..Len(partition_resolved) : HasCol(tb, partition_resolved[k]))
                  /\ (Len(keys) = 0 \/ tb.dtypes[c] # "object") ->
                    {InPlace(SetColumn(tb, rank_col, "float64", ranks),
                             <<"window_rank", <<by>> \o partition_resolved>>)}

\* the running sum of the non-null cells of the group up to row r
RunningSum(vals, group, r) ==
    LET upto == Positions(LAMBDA g : group[g] <= r, 1, Len(group))
    IN  IF IsNull(vals[r]) \/ Len(group) = 0 THEN NaN
        ELSE SumVals(NonNull([g \in 1..Len(upto) |-> vals[group[upto[g]]]]))

\* `column` and `by` of cumsum and pct_change
StepColumn(tb, step) ==
    IF Truthy(step.column) THEN ResolveColumn(tb.cols, PyStr(step.column)) ELSE NoneV

\* op == "cumsum" (a running sum of text or timestamps is outside the model).
\* The log line is written even when no column was resolved.
OpCumsum(tb, step) ==
    LET column == StepColumn(tb, step)
        new_col == StrV(PyStr(OrDefault(step.new_column,
                                        StrV(PyStr(column) \o <<"_", "c", "u", "m", "s", "u", "m">>))))
        by_resolved == ByResolved(tb, step.by)
        keys == [k \in 1..Len(by_resolved) |-> ColIdx(tb, by_resolved[k])]
        vals == Column(tb, column)
        group(r) == IF Len(keys) = 0 THEN Whole(tb) ELSE GroupOf(tb, keys, r)
        sums == [r \in 1..NRows(tb) |-> RunningSum(vals, group(r), r)]
        dtype == IF \E r \in 1..NRows(tb) : IsNull(sums[r]) THEN "float64"
                 ELSE DtypeOf(tb, column)
        line == <<"cumsum", <<column>> \o by_resolved>>
    IN  IF ~Truthy(column) THEN {InPlace(tb, line)}
        ELSE CASE \/ ~HasCol(tb, column)
                  \/ \E k \in 1..Len(by_resolved) : ~HasCol(tb, by_resolved[k]) -> {Swallow(tb)}
               [] HasCol(tb, column)
                  /\ (\A k \in 1..Len(by_resolved) : HasCol(tb, by_resolved[k]))
                  /\ DtypeOf(tb, column) \in {"int64", "float64"} ->
                    {InPlace(SetColumn(tb, new_col, dtype, sums), line)}

\* x / y of two numbers, y not zero
NumDiv(x, y) == Frac(x.n * y.d, x.d * y.n)

\* pct_change(periods): the cell over the cell `periods` places earlier in
\* its group, less one, nulls first filled forward within the group
PctChange(vals, group, r, periods) ==
    LET at == CHOOSE g \in 1..Len(group) : group[g] = r
        \* the last non-null cell of the group at or before place g
        filled(g) == LET live == {h \in 1..g : ~IsNull(vals[group[h]])}
                     IN  IF live = {} THEN NaN
                         ELSE vals[group[CHOOSE h \in live : \A j \in live : j <= h]]
        prev == at - periods
    IN  IF Len(group) = 0 \/ prev < 1 \/ prev > Len(group) THEN NaN
        ELSE IF IsNull(filled(at)) \/ IsNull(filled(prev)) THEN NaN
        ELSE CASE filled(prev).n # 0 ->
                    NumSub(NumDiv(AsNum(filled(at)), AsNum(filled(prev))), NumV(1))

\* op == "pct_change": int(periods) is evaluated outside the try
OpPctChange(tb, step) ==
    LET column == StepColumn(tb, step)
        new_col == StrV(PyStr(OrDefault(step.new_column,
                                        StrV(PyStr(column) \o <<"_", "p", "c", "t", "_", "c", "h", "a", "n", "g", "e">>))))
        periods == PyInt(GetOr(step.periods, NumV(1)))
        by_resolved == ByResolved(tb, step.by)
        keys == [k \in 1..Len(by_resolved) |-> ColIdx(tb, by_resolved[k])]
        vals == Column(tb, column)
        group(r) == IF Len(keys) = 0 THEN Whole(tb) ELSE GroupOf(tb, keys, r)
        out == [r \in 1..NRows(tb) |-> PctChange(vals, group(r), r, periods[2])]
        line == <<"pct_change", <<column>> \o by_resolved \o <<NumV(periods[2])>>>>
    IN  IF ~periods[1] THEN {Raise(tb)}
        ELSE IF ~Truthy(column) THEN {InPlace(tb, line)}
        ELSE IF \/ ~HasCol(tb, column)
                \/ \E k \in 1..Len(by_resolved) : ~HasCol(tb, by_resolved[k])
                \/ DtypeOf(tb, column) \notin {"int64", "float64"}
        THEN {Swallow(tb)}
        ELSE {InPlace(SetColumn(tb, new_col, "float64", out), line)}

----------------------------------------------------------------------------
(* value_counts and sample *)

DefaultTop == 20

\* the distinct non-null values in the order they first appear, which is not
\* the order value_counts gives
FirstSeenHeads(vals) ==
    Positions(LAMBDA r : ~IsNull(vals[r]) /\ \A q \in 1..(r - 1) : vals[q] # vals[r],
              1, Len(vals))

\* series.value_counts(): the first row position of every distinct non-null
\* value, the most frequent value first, equally frequent ones in order of
\* first appearance
CountedHeads(vals) ==
    LET n == Len(vals)
        first(r) == ~IsNull(vals[r]) /\ \A q \in 1..(r - 1) : vals[q] # vals[r]
        heads == Positions(first, 1, n)
        count(h) == Cardinality({q \in 1..n : vals[q] = vals[heads[h]]})
        place(h) == 1 + Cardinality({g \in 1..Len(heads) :
                        count(g) > count(h) \/ (count(g) = count(h) /\ g < h)})
    IN  [k \in 1..Len(heads) |-> heads[CHOOSE h \in 1..Len(heads) : place(h) = k]]

\* op == "value_counts": int(k) is evaluated outside any try.  When two
\* columns carry the label, working[column] is a frame and counting it
\* raises ValueError, outside any try as well.  reset_index
\* names the two columns "index" and the counted column's name, which the
\* rename maps to the column's name and "count".
OpValueCounts(tb, step) ==
    LET column == StepColumn(tb, step)
        normalize == Truthy(GetOr(step.normalize, BoolV(FALSE)))
        top == PyInt(GetOr(step.k, NumV(DefaultTop)))
        vals == Column(tb, column)
        heads == CountedHeads(vals)
        total == Len(NonNull(vals))
        count(h) == Cardinality({q \in 1..Len(vals) : vals[q] = vals[h]})
        mapping == << <<StrV(<<"i", "n", "d", "e", "x">>), StrV(PyStr(column))>>, <<column, StrV(<<"c", "o", "u", "n", "t">>)>> >>
        vc == Table(<<RenameLabel(mapping, StrV(<<"i", "n", "d", "e", "x">>)), RenameLabel(mapping, column)>>,
                    <<DtypeOf(tb, column), IF normalize THEN "float64" ELSE "int64">>,
                    [k \in 1..Len(heads) |->
                        <<vals[heads[k]],
                          IF normalize THEN Frac(count(heads[k]), total)
                          ELSE NumV(count(heads[k]))>>])
    IN  IF ~top[1] THEN {Raise(tb)}
        ELSE IF Truthy(column) /\ Len(LabelPositions(tb.cols, <<column>>)) > 1
        THEN {Raise(tb)}
        ELSE IF Truthy(column) /\ HasCol(tb, column)
        THEN {Rebind(HeadRows(vc, top[2]),
                     <<"value_counts", <<column, BoolV(normalize), NumV(top[2])>>>>)}
        ELSE {Skip(tb)}

\* the ways to draw k of n rows without replacement, as sequences of row
\* positions
Draws(n, k) == {s \in [1..k -> 1..n] : \A i, j \in 1..k : i # j => s[i] # s[j]}

\* round(x) of a non-negative number, halves to the even neighbour
RoundHalfEven(x) ==
    LET lo == x.n \div x.d
        twice == 2 * (x.n % x.d)
    IN  IF twice < x.d THEN lo
        ELSE IF twice > x.d THEN lo + 1
        ELSE IF lo % 2 = 0 THEN lo ELSE lo + 1

\* a sample that does not hand random_state to the generator: every draw is
\* possible whatever the step says
OpSampleNoSeed(tb, step) ==
    {Rebind(TakeRows(tb, d), <<"sample", <<step.n, step.frac>>>>) : d \in Draws(NRows(tb), 1)}

\* op == "sample".  Without random_state every draw is possible; with one
\* the draw is a function of the seed and the table, which the generator
\* fixes (CHOOSE stands for it).
OpSample(tb, step) ==
    LET n == step.n
        frac == step.frac
        random_state == step.random_state
        size == IF n.t \notin {"absent", "none"} THEN PyInt(n)
                ELSE LET f == AsNumber(frac)
                     IN  IF f.t = "num" /\ f.n >= 0 /\ f.n <= f.d
                         THEN <<TRUE, RoundHalfEven(NumMul(f, NumV(NRows(tb))))>>
                         ELSE <<FALSE, 0>>
        draws == Draws(NRows(tb), size[2])
        line == <<"sample", <<n, frac>>>>
    IN  IF n.t \in {"absent", "none"} /\ frac.t \in {"absent", "none"} THEN {InPlace(tb, line)}
        ELSE IF ~size[1] \/ size[2] < 0 \/ size[2] > NRows(tb) THEN {Swallow(tb)}
        ELSE CASE random_state.t \in {"absent", "none"} ->
                    {Rebind(TakeRows(tb, d), line) : d \in draws}
               [] random_state.t = "num" ->
                    {Rebind(TakeRows(tb, CHOOSE d \in draws : TRUE), line)}

\* a dispatcher that records the op it does not know, which the code does not
OpUnknownLogged(tb, step) == {InPlace(tb, <<"unknown op", <<step.op>>>>)}

\* an unrecognized op: continue
OpUnknown(tb, step) == {Skip(tb)}

\* the op tags the dispatcher knows
KnownOps ==
    {<<"f", "i", "l", "t", "e", "r">>, <<"s", "e", "l", "e", "c", "t">>, <<"c", "o", "m", "p", "u", "t", "e">>, <<"g", "r", "o", "u", "p", "b", "y", "_", "a", "g", "g">>, <<"s", "o", "r", "t">>, <<"t", "o", "p", "k">>, <<"r", "e", "n", "a", "m", "e">>,
     <<"p", "i", "v", "o", "t">>, <<"l", "i", "m", "i", "t">>, <<"d", "r", "o", "p", "n", "a">>, <<"f", "i", "l", "l", "n", "a">>, <<"c", "a", "s", "t">>, <<"d", "a", "t", "e", "_", "p", "a", "r", "s", "e">>, <<"d", "a", "t", "e", "_", "t", "r", "u", "n", "c">>,
     <<"w", "i", "n", "d", "o", "w", "_", "r", "a", "n", "k">>, <<"c", "u", "m", "s", "u", "m">>, <<"p", "c", "t", "_", "c", "h", "a", "n", "g", "e">>, <<"v", "a", "l", "u", "e", "_", "c", "o", "u", "n", "t", "s">>, <<"d", "e", "d", "u", "p", "e">>, <<"s", "a", "m", "p", "l", "e">>}

\* a finalization without the width cap, which the code does not have
CompactNothing(tb) == <<tb, <<>>>>

\* final compaction: <<table, log lines>>
Compact(tb) ==
    IF NCols(tb) > MaxCols
    THEN <<Table(SubSeq(tb.cols, 1, MaxCols),
                 SubSeq(tb.dtypes, 1, MaxCols),
                 [r \in 1..NRows(tb) |-> SubSeq(tb.rows[r], 1, MaxCols)]),
           <<<<"trim columns", <<NumV(MaxCols)>>>>>>>>
    ELSE <<tb, <<>>>>

\* a coercer writing into the caller's object, as it would without df.copy()
CoerceInCallersTable == TRUE

\* working = df.copy(): the working table is a new object, not the caller's
CoerceAliases == FALSE

----------------------------------------------------------------------------
(* Inputs *)

Region == StrV(<<"r", "e", "g", "i", "o", "n">>)
Revenue == StrV(<<"r", "e", "v", "e", "n", "u", "e">>)
DateCol == StrV(<<"D", "a", "t", "e">>)

\* a raw upload: revenue and Date arrive as text
SalesTable ==
    Table(<<Region, Revenue, StrV(<<"u", "n", "i", "t", "s">>), DateCol>>,
          <<"object", "object", "int64", "object">>,
          << <<StrV(<<"A">>), StrV(<<"$", "1", "0", "0">>), NumV(1), StrV(<<"2", "0", "2", "4", "-", "0", "1", "-", "1", "5">>)>>,
             <<StrV(<<"B">>), StrV(<<"3", "0", "0">>), NumV(2), StrV(<<"2", "0", "2", "4", "-", "0", "2", "-", "2", "0">>)>>,
             <<StrV(<<"A">>), StrV(<<"5", "0", "%">>), NumV(1), StrV(<<"b", "a", "d">>)>> >>)

\* a table one column wider than the cap, columns c1, c2, ...
WideTable ==
    Table([c \in 1..(MaxCols + 1) |-> StrV(<<"c">> \o NatToText(c))],
          [c \in 1..(MaxCols + 1) |-> "int64"],
          << [c \in 1..(MaxCols + 1) |-> NumV(c)] >>)

EmptyTable == Table(<<>>, <<>>, <<>>)

\* a column that holds text and a number (a spreadsheet column of codes)
Code == StrV(<<"c", "o", "d", "e">>)
MixedTable ==
    Table(<<Code>>, <<"object">>, << <<StrV(<<"x">>)>>, <<NumV(5)>> >>)

\* one text column c holding y, x, x and a missing value
Letter == StrV(<<"c">>)
LetterTable ==
    Table(<<Letter>>, <<"object">>,
          << <<StrV(<<"y">>)>>, <<StrV(<<"x">>)>>, <<StrV(<<"x">>)>>, <<NaN>> >>)

Tables == {SalesTable, WideTable, MixedTable, LetterTable}

Nope == StrV(<<"m", "i", "s", "s", "i", "n", "g">>)
Units == StrV(<<"u", "n", "i", "t", "s">>)

Cond(column, operator, value) ==
    [column |-> column, operator |-> StrV(operator), value |-> value,
     values |-> <<>>, isList |-> FALSE, ci |-> TRUE]
CondList(column, operator, values) ==
    [column |-> column, operator |-> StrV(operator), value |-> Absent,
     values |-> values, isList |-> TRUE, ci |-> TRUE]

FilterSteps ==
    {[op |-> StrV(<<"f", "i", "l", "t", "e", "r">>), conditions |-> cs] :
        cs \in {<<Cond(Revenue, <<">">>, NumV(100))>>,
                <<Cond(Nope, <<"=", "=">>, NumV(1))>>,
                <<CondList(Revenue, <<"b", "e", "t", "w", "e", "e", "n">>, <<NumV(100)>>)>>}}

SelectSteps ==
    {[op |-> StrV(<<"s", "e", "l", "e", "c", "t">>), columns |-> <<StrV(<<"R", "E", "G", "I", "O", "N">>), Nope>>]}

ColSpec(c) == [column |-> c, value |-> Absent]
ValSpec(v) == [column |-> Absent, value |-> v]

ComputeSteps ==
    {[op |-> StrV(<<"c", "o", "m", "p", "u", "t", "e">>), new_column |-> StrV(<<"t", "o", "t", "a", "l">>), operation |-> StrV(o[1]),
      left |-> o[2], right |-> o[3]] :
        o \in {<<<<"a", "d", "d">>, ColSpec(Revenue), ColSpec(Revenue)>>,
               <<<<"p", "o", "w", "e", "r">>, ColSpec(Revenue), ValSpec(NumV(2))>>}}

Agg(c, f) == [column |-> c, agg |-> StrV(f)]

GroupbySteps ==
    {[op |-> StrV(<<"g", "r", "o", "u", "p", "b", "y", "_", "a", "g", "g">>), by |-> <<Region>>, aggregations |-> <<a>>] :
        a \in {Agg(Revenue, <<"s", "u", "m">>), Agg(Region, <<"m", "e", "a", "n">>)}}
    \cup {[op |-> StrV(<<"g", "r", "o", "u", "p", "b", "y", "_", "a", "g", "g">>), by |-> <<Region>>,
            aggregations |-> <<Agg(Revenue, <<"s", "u", "m">>), Agg(Revenue, <<"s", "u", "m">>)>>],
          [op |-> StrV(<<"g", "r", "o", "u", "p", "b", "y", "_", "a", "g", "g">>), by |-> <<Region>>,
            aggregations |-> <<Agg(Revenue, <<"m", "e", "a", "n">>), Agg(Units, <<"m", "a", "x">>), Agg(Revenue, <<"c", "o", "u", "n", "t">>)>>],
          [op |-> StrV(<<"g", "r", "o", "u", "p", "b", "y", "_", "a", "g", "g">>), by |-> <<Region, Units>>,
            aggregations |-> <<Agg(Revenue, <<"s", "u", "m">>)>>]}

Flag(v) == [list |-> FALSE, items |-> <<v>>]

SortSteps ==
    {[op |-> StrV(<<"s", "o", "r", "t">>), by |-> <<c>>, ascending |-> Flag(Absent)] : c \in {Revenue, Nope}}

TopkSteps ==
    {[op |-> StrV(<<"T", "o", "p", "K">>), k |-> o[1], by |-> o[2]] :
        o \in {<<NumV(2), Revenue>>,
               <<StrV(<<"t", "w", "o">>), Revenue>>,
               <<NumV(1), StrV(<<"1">>)>>,
               <<NumV(2), Region>>,
               <<NumV(2), Nope>>,
               <<NumV(1), Absent>>}}

RenameSteps ==
    {[op |-> StrV(<<"r", "e", "n", "a", "m", "e">>), mapping |-> << <<StrV(<<"R", "e", "v", "e", "n", "u", "e">>), StrV(<<"s", "a", "l", "e", "s">>)>> >>]}

PivotSteps ==
    {[op |-> StrV(<<"p", "i", "v", "o", "t">>), index |-> Region, columns |-> Units, values |-> Revenue,
      aggfunc |-> Absent, fill_value |-> Absent]}

LimitSteps == {[op |-> StrV(<<"l", "i", "m", "i", "t">>), n |-> NumV(1)]}

NoSubset == [given |-> FALSE, items |-> <<>>]
Subset(items) == [given |-> TRUE, items |-> items]

DropnaSteps == {[op |-> StrV(<<"d", "r", "o", "p", "n", "a">>), subset |-> NoSubset, how |-> Absent]}

Scalar(v) == [isDict |-> FALSE, scalar |-> v, items |-> <<>>]

FillnaSteps == {[op |-> StrV(<<"f", "i", "l", "l", "n", "a">>), value |-> Scalar(NumV(0))]}

DedupeSteps == {[op |-> StrV(<<"d", "e", "d", "u", "p", "e">>), subset |-> Subset(<<Region>>), keep |-> Absent]}

CastSteps ==
    {[op |-> StrV(<<"c", "a", "s", "t">>), types |-> << m >>] :
        m \in {<<Revenue, StrV(<<"f", "l", "o", "a", "t">>)>>, <<Nope, StrV(<<"i", "n", "t">>)>>}}

DateParseSteps == {[op |-> StrV(<<"d", "a", "t", "e", "_", "p", "a", "r", "s", "e">>), columns |-> <<Nope>>]}

DateTruncSteps == {[op |-> StrV(<<"d", "a", "t", "e", "_", "t", "r", "u", "n", "c">>), column |-> DateCol, freq |-> Absent]}

WindowRankSteps ==
    {[op |-> StrV(<<"w", "i", "n", "d", "o", "w", "_", "r", "a", "n", "k">>), by |-> Revenue, partition_by |-> <<Region>>,
      rank_column |-> Absent, ascending |-> Absent]}

CumsumSteps ==
    {[op |-> StrV(<<"c", "u", "m", "s", "u", "m">>), column |-> c, by |-> <<>>, new_column |-> Absent] :
        c \in {Revenue, Nope}}

PctChangeSteps ==
    {[op |-> StrV(<<"p", "c", "t", "_", "c", "h", "a", "n", "g", "e">>), column |-> Revenue, by |-> <<>>, new_column |-> Absent,
      periods |-> Absent]}

ValueCountsSteps ==
    {[op |-> StrV(<<"v", "a", "l", "u", "e", "_", "c", "o", "u", "n", "t", "s">>), column |-> Region, normalize |-> Absent, k |-> Absent]}

Seed == NumV(7)

SampleSteps ==
    {[op |-> StrV(<<"s", "a", "m", "p", "l", "e">>), n |-> NumV(1), frac |-> Absent, random_state |-> r] :
        r \in {Absent, Seed}}

UnknownSteps == {[op |-> StrV(<<"e", "x", "p", "l", "o", "d", "e">>)]}

\* the steps a plan for the sales table is made of
SalesSteps ==
    UNION {FilterSteps, SelectSteps, ComputeSteps, GroupbySteps, SortSteps, TopkSteps,
           RenameSteps, PivotSteps, LimitSteps, DropnaSteps, FillnaSteps, DedupeSteps,
           CastSteps, DateParseSteps, DateTruncSteps, WindowRankSteps, CumsumSteps,
           PctChangeSteps, ValueCountsSteps, SampleSteps, UnknownSteps}

FirstWide == StrV(<<"c", "1">>)

\* the steps a plan for the wide table is made of: they add a column, keep
\* one, cut the rows, or do nothing
WideSteps ==
    {[op |-> StrV(<<"c", "o", "m", "p", "u", "t", "e">>), new_column |-> StrV(<<"t", "o", "t", "a", "l">>), operation |-> StrV(<<"a", "d", "d">>),
      left |-> ColSpec(FirstWide), right |-> ColSpec(FirstWide)],
     [op |-> StrV(<<"s", "e", "l", "e", "c", "t">>), columns |-> <<FirstWide>>],
     [op |-> StrV(<<"l", "i", "m", "i", "t">>), n |-> NumV(0)],
     [op |-> StrV(<<"e", "x", "p", "l", "o", "d", "e">>)]}

\* the steps a plan for the mixed table is made of
MixedSteps ==
    {[op |-> StrV(<<"f", "i", "l", "t", "e", "r">>), conditions |-> <<c>>] :
        c \in {Cond(Code, <<">">>, NumV(5)), Cond(Code, <<"=", "=">>, StrV(<<"x">>))}}

\* the steps a plan for the letter table is made of
LetterSteps ==
    {[op |-> StrV(<<"v", "a", "l", "u", "e", "_", "c", "o", "u", "n", "t", "s">>), column |-> Letter, normalize |-> BoolV(TRUE), k |-> k] :
        k \in {Absent, NumV(1)}}
    \cup {[op |-> StrV(<<"l", "i", "m", "i", "t">>), n |-> NumV(2)],
          [op |-> StrV(<<"s", "e", "l", "e", "c", "t">>), columns |-> <<Letter, StrV(<<"C">>)>>]}

\* a table of orders: a text column and a whole-number column, each with
\* a value that occurs twice, and no two rows alike
Qty == StrV(<<"q", "t", "y">>)
OrdersTable ==
    Table(<<Region, Qty>>, <<"object", "int64">>,
          << <<StrV(<<"E", "a", "s", "t">>), NumV(2)>>,
             <<StrV(<<"w", "e", "s", "t">>), NumV(1)>>,
             <<StrV(<<"N", "o", "r", "t", "h">>), NumV(2)>>,
             <<StrV(<<"E", "a", "s", "t">>), NumV(3)>> >>)

OrdersCasts ==
    {[op |-> StrV(<<"c", "a", "s", "t">>), types |-> << m >>] :
        m \in {<<Region, StrV(<<"d", "a", "t", "e", "t", "i", "m", "e">>)>>, <<Qty, StrV(<<"f", "l", "o", "a", "t">>)>>,
               <<Qty, StrV(<<"i", "n", "t">>)>>, <<Nope, StrV(<<"i", "n", "t">>)>>}}

OrdersSelects ==
    {[op |-> StrV(<<"s", "e", "l", "e", "c", "t">>), columns |-> c] :
        c \in {<<Qty, Region>>, <<Nope, Qty>>, <<Nope>>, <<StrV(<<"R", "E", "G", "I", "O", "N">>)>>}}

OrdersFilters ==
    {[op |-> StrV(<<"f", "i", "l", "t", "e", "r">>), conditions |-> cs] :
        cs \in {<<Cond(Qty, <<">", "=">>, NumV(2))>>,
                <<Cond(Qty, <<">", "=">>, NumV(2)), Cond(Region, <<"=", "=">>, StrV(<<"E", "a", "s", "t">>))>>,
                <<CondList(Qty, <<"b", "e", "t", "w", "e", "e", "n">>, <<NumV(1), NumV(2)>>)>>,
                <<CondList(Region, <<"i", "n">>, <<>>)>>,
                <<CondList(Region, <<"n", "o", "t", "_", "i", "n">>, <<StrV(<<"E", "a", "s", "t">>)>>)>>,
                <<Cond(Nope, <<"=", "=">>, NumV(1)), Cond(Qty, <<"<">>, NumV(3))>>,
                <<Cond(Qty, <<"l", "i", "k", "e">>, NumV(2)), Cond(Qty, <<"!", "=">>, StrV(<<"1">>))>>,
                <<Cond(Region, <<"c", "o", "n", "t", "a", "i", "n", "s">>, StrV(<<"S", "T">>))>>}}

OrdersSorts ==
    {[op |-> StrV(<<"s", "o", "r", "t">>), by |-> o[1], ascending |-> Flag(o[2])] :
        o \in {<<<<Qty>>, Absent>>, <<<<Qty>>, BoolV(TRUE)>>,
               <<<<Region, Qty>>, BoolV(TRUE)>>, <<<<Nope>>, Absent>>}}

\* the steps a plan for the orders table is made of
OrdersSteps == UNION {OrdersCasts, OrdersSelects, OrdersFilters, OrdersSorts}

Catalog(tb) ==
    CASE tb = WideTable -> WideSteps
      [] tb = MixedTable -> MixedSteps
      [] tb = LetterTable -> LetterSteps
      [] tb = OrdersTable -> OrdersSteps
      [] OTHER -> SalesSteps

NoStep == [op |-> NoneV]
NoLast == [step |-> NoStep, before |-> EmptyTable, log |-> <<>>, caught |-> FALSE,
           raised |-> FALSE]

----------------------------------------------------------------------------
(* _execute_analysis_plan *)

\* the state entries analysis_agent may store, none stored yet
NothingStored == [answer |-> "none", plan |-> NoneV, table |-> FALSE, logs |-> FALSE]

AgentIdle ==
    /\ agEnv = [llmUp |-> FALSE, agentUp |-> FALSE]
    /\ agPlan = NoneV
    /\ agRan = FALSE
    /\ agRaised = "none"
    /\ agState = NothingStored
    /\ agPc = "idle"

NoResponse == [status |-> "none", called |-> FALSE]

AuthIdle ==
    /\ auSettings = [environment |-> <<>>, auth_bearer_token |-> NoneV]
    /\ auRequest = [method |-> <<>>, path |-> <<>>, authorization |-> NoneV]
    /\ auResponse = NoResponse
    /\ auPc = "idle"

\* the AppState of an invocation: the entries the UI passes in and the
\* entries the nodes add, None for a key not stored yet
AppState(query, has_new_upload, prefer_visual) ==
    [query |-> query, has_new_upload |-> has_new_upload, prefer_visual |-> prefer_visual,
     intent |-> NoneV, analysis_answer |-> NoneV, final_answer |-> NoneV]

GraphIdle ==
    /\ grState = AppState(<<>>, FALSE, FALSE)
    /\ grLlm = [raises |-> FALSE, content |-> <<>>]
    /\ grFails = {}
    /\ grVisited = <<>>
    /\ grPc = "idle"

CoercerIdle ==
    /\ cin = EmptyTable
    /\ cout = EmptyTable
    /\ cpc = "idle"

ResolverIdle ==
    /\ rcols = <<>>
    /\ rname = <<>>
    /\ rres = NoneV
    /\ rname2 = <<>>
    /\ rres2 = NoneV
    /\ rpc = "idle"

Init ==
    /\ input \in Tables
    /\ callerDf = input
    /\ aliased = FALSE
    /\ working = EmptyTable
    /\ logs = <<>>
    /\ pc = "coerce"
    /\ plan = <<>>
    /\ last = NoLast
    /\ trace = <<>>
    /\ working2 = EmptyTable
    /\ logs2 = <<>>
    /\ pc2 = "coerce"
    /\ tiesKept = TRUE          \* the tables here are sorted on keys without ties
    /\ ResolverIdle
    /\ CoercerIdle
    /\ AgentIdle
    /\ AuthIdle
    /\ GraphIdle

\* working = _smart_coerce_dataframe(df); logs = []
Coerce ==
    /\ pc = "coerce"
    /\ working' = SmartCoerce(callerDf)
    /\ aliased' = CoerceAliases
    /\ callerDf' = IF CoerceAliases THEN SmartCoerce(callerDf) ELSE callerDf
    /\ logs' = <<>>
    /\ pc' = "apply"
    /\ trace' = Append(trace, "coerce")
    /\ working2' = SmartCoerce(input)
    /\ logs2' = <<>>
    /\ pc2' = "apply"
    /\ UNCHANGED <<input, plan, last, tiesKept, notRun>>

\* one pass through the loop body for the step s, whose handler is Op: each
\* execution takes one of the outcomes the handler has on its working table
Apply(s, Op(_, _)) ==
    LET outs == Op(working, s)
        outs2 == IF working2 = working THEN outs ELSE Op(working2, s)
    IN
    /\ \E o \in outs :
        /\ working' = o.tbl
        /\ logs' = logs \o o.log
        /\ pc' = IF o.raised THEN "raised" ELSE "apply"
        /\ aliased' = (aliased /\ ~o.rebound)
        /\ callerDf' = IF aliased /\ ~o.rebound THEN o.tbl ELSE callerDf
        /\ last' = [step |-> s, before |-> working, log |-> logs, caught |-> o.caught,
                    raised |-> o.raised]
    /\ IF pc2 = "apply"
       THEN \E o2 \in outs2 :
                /\ working2' = o2.tbl
                /\ logs2' = logs2 \o o2.log
                /\ pc2' = IF o2.raised THEN "raised" ELSE "apply"
       ELSE UNCHANGED <<working2, logs2, pc2>>
    /\ plan' = Append(plan, s)
    /\ trace' = Append(trace, "op")
    /\ UNCHANGED <<input, tiesKept, notRun>>

\* a loop that could be entered again after the final compaction, which the
\* code's single for loop cannot
AtStepOrReturned == pc \in {"apply", "done"} /\ Len(plan) < MaxSteps

\* for step in steps: the loop is at a step while the plan has one
AtStep == pc = "apply" /\ Len(plan) < MaxSteps

ApplyFilter ==
    /\ AtStep
    /\ \E s \in Catalog(input) :
        OpTag(s) = <<"f", "i", "l", "t", "e", "r">> /\ Apply(s, OpFilter)

ApplySelect ==
    /\ AtStep
    /\ \E s \in Catalog(input) :
        OpTag(s) = <<"s", "e", "l", "e", "c", "t">> /\ Apply(s, OpSelect)

ApplyCompute ==
    /\ AtStep
    /\ \E s \in Catalog(input) :
        OpTag(s) = <<"c", "o", "m", "p", "u", "t", "e">> /\ Apply(s, OpCompute)

ApplySort ==
    /\ AtStep
    /\ \E s \in Catalog(input) :
        OpTag(s) = <<"s", "o", "r", "t">> /\ Apply(s, OpSort)

ApplyTopk ==
    /\ AtStep
    /\ \E s \in Catalog(input) :
        OpTag(s) = <<"t", "o", "p", "k">> /\ Apply(s, OpTopk)

ApplyGroupbyAgg ==
    /\ AtStep
    /\ \E s \in Catalog(input) :
        OpTag(s) = <<"g", "r", "o", "u", "p", "b", "y", "_", "a", "g", "g">> /\ Apply(s, OpGroupbyAgg)

ApplyRename ==
    /\ AtStep
    /\ \E s \in Catalog(input) :
        OpTag(s) = <<"r", "e", "n", "a", "m", "e">> /\ Apply(s, OpRename)

ApplyPivot ==
    /\ AtStep
    /\ \E s \in Catalog(input) :
        OpTag(s) = <<"p", "i", "v", "o", "t">> /\ Apply(s, OpPivot)

ApplyDropna ==
    /\ AtStep
    /\ \E s \in Catalog(input) :
        OpTag(s) = <<"d", "r", "o", "p", "n", "a">> /\ Apply(s, OpDropna)

ApplyFillna ==
    /\ AtStep
    /\ \E s \in Catalog(input) :
        OpTag(s) = <<"f", "i", "l", "l", "n", "a">> /\ Apply(s, OpFillna)

ApplyDedupe ==
    /\ AtStep
    /\ \E s \in Catalog(input) :
        OpTag(s) = <<"d", "e", "d", "u", "p", "e">> /\ Apply(s, OpDedupe)

ApplyCast ==
    /\ AtStep
    /\ \E s \in Catalog(input) :
        OpTag(s) = <<"c", "a", "s", "t">> /\ Apply(s, OpCast)

ApplyDateParse ==
    /\ AtStep
    /\ \E s \in Catalog(input) :
        OpTag(s) = <<"d", "a", "t", "e", "_", "p", "a", "r", "s", "e">> /\ Apply(s, OpDateParse)

ApplyDateTrunc ==
    /\ AtStep
    /\ \E s \in Catalog(input) :
        OpTag(s) = <<"d", "a", "t", "e", "_", "t", "r", "u", "n", "c">> /\ Apply(s, OpDateTrunc)

ApplyWindowRank ==
    /\ AtStep
    /\ \E s \in Catalog(input) :
        OpTag(s) = <<"w", "i", "n", "d", "o", "w", "_", "r", "a", "n", "k">> /\ Apply(s, OpWindowRank)

ApplyCumsum ==
    /\ AtStep
    /\ \E s \in Catalog(input) :
        OpTag(s) = <<"c", "u", "m", "s", "u", "m">> /\ Apply(s, OpCumsum)

ApplyPctChange ==
    /\ AtStep
    /\ \E s \in Catalog(input) :
        OpTag(s) = <<"p", "c", "t", "_", "c", "h", "a", "n", "g", "e">> /\ Apply(s, OpPctChange)

ApplyValueCounts ==
    /\ AtStep
    /\ \E s \in Catalog(input) :
        OpTag(s) = <<"v", "a", "l", "u", "e", "_", "c", "o", "u", "n", "t", "s">> /\ Apply(s, OpValueCounts)

ApplySample ==
    /\ AtStep
    /\ \E s \in Catalog(input) :
        OpTag(s) = <<"s", "a", "m", "p", "l", "e">> /\ Apply(s, OpSample)

ApplyLimit ==
    /\ AtStep
    /\ \E s \in Catalog(input) :
        OpTag(s) = <<"l", "i", "m", "i", "t">> /\ Apply(s, OpLimit)

ApplyUnknown ==
    /\ AtStep
    /\ \E s \in Catalog(input) :
        OpTag(s) \notin KnownOps /\ Apply(s, OpUnknown)

\* the loop is over: final compaction and return
Finalize ==
    /\ pc = "apply"
    /\ working' = Compact(working)[1]
    /\ logs' = logs \o Compact(working)[2]
    /\ pc' = "done"
    /\ aliased' = (aliased /\ NCols(working) <= MaxCols)
    /\ trace' = Append(trace, "cap")
    /\ IF pc2 = "apply"
       THEN /\ working2' = Compact(working2)[1]
            /\ logs2' = logs2 \o Compact(working2)[2]
            /\ pc2' = "done"
       ELSE UNCHANGED <<working2, logs2, pc2>>
    /\ last' = [NoLast EXCEPT !.before = working, !.log = logs]
    /\ UNCHANGED <<input, callerDf, plan, tiesKept, notRun>>

Next ==
    \/ Coerce
    \/ ApplyFilter
    \/ ApplySelect
    \/ ApplyCompute
    \/ ApplySort
    \/ ApplyTopk
    \/ ApplyGroupbyAgg
    \/ ApplyRename
    \/ ApplyPivot
    \/ ApplyDropna
    \/ ApplyFillna
    \/ ApplyDedupe
    \/ ApplyCast
    \/ ApplyDateParse
    \/ ApplyDateTrunc
    \/ ApplyWindowRank
    \/ ApplyCumsum
    \/ ApplyPctChange
    \/ ApplyValueCounts
    \/ ApplySample
    \/ ApplyLimit
    \/ ApplyUnknown
    \/ Finalize

Spec == Init /\ [][Next]_vars

----------------------------------------------------------------------------
(* the handlers of filter, select, sort and cast on the orders table and
   the mixed table *)

InitOrders ==
    /\ input \in {OrdersTable, MixedTable}
    /\ callerDf = input
    /\ aliased = FALSE
    /\ working = EmptyTable
    /\ logs = <<>>
    /\ pc = "coerce"
    /\ plan = <<>>
    /\ last = NoLast
    /\ trace = <<>>
    /\ working2 = EmptyTable
    /\ logs2 = <<>>
    /\ pc2 = "coerce"
    /\ tiesKept \in BOOLEAN
    /\ ResolverIdle
    /\ CoercerIdle
    /\ AgentIdle
    /\ AuthIdle
    /\ GraphIdle

NextOrders ==
    \/ Coerce
    \/ ApplyFilter
    \/ ApplySelect
    \/ ApplySort
    \/ ApplyCast
    \/ Finalize

SpecOrders == InitOrders /\ [][NextOrders]_vars

----------------------------------------------------------------------------
(* _resolve_column called on its own, on tables of up to MaxLabels columns *)

MaxLabels == 2                \* most columns of a table the resolver is asked about

\* column names: two that differ in case only, and two more
LabelTexts == {<<"R", "e", "g", "i", "o", "n">>, <<"r", "e", "g", "i", "o", "n">>, <<"R", "E", "G", "I", "O", "N">>, <<"R", "e", "v", "e", "n", "u", "e">>, <<"D", "a", "t", "e">>}

\* requested names: exact ones, ones that match ignoring case, misspelt ones
\* and one that is like no label
NameTexts == {<<"R", "e", "g", "i", "o", "n">>, <<"r", "e", "g", "i", "o", "n">>, <<"R", "E", "G", "I", "O", "N">>, <<"r", "e", "g", "i", "o">>, <<"R", "e", "v", "e", "n", "e", "u">>, <<"r", "e", "v", "e", "n", "u", "e">>, <<"d", "a", "t", "e">>, <<"m", "i", "s", "s", "i", "n", "g">>}

\* the column lists of a table: its names are unique
ColumnLists ==
    {[i \in 1..Len(s) |-> StrV(s[i])] :
        s \in {t \in UNION {[1..n -> LabelTexts] : n \in 0..MaxLabels} :
                 \A i, j \in 1..Len(t) : i # j => t[i] # t[j]}}

RunIdle ==
    /\ input = EmptyTable
    /\ callerDf = EmptyTable
    /\ aliased = FALSE
    /\ working = EmptyTable
    /\ logs = <<>>
    /\ pc = "idle"
    /\ plan = <<>>
    /\ last = NoLast
    /\ trace = <<>>
    /\ working2 = EmptyTable
    /\ logs2 = <<>>
    /\ pc2 = "idle"
    /\ tiesKept = TRUE

InitResolve ==
    /\ rcols \in ColumnLists
    /\ rname \in NameTexts
    /\ rres = NoneV
    /\ rname2 \in NameTexts
    /\ rres2 = NoneV
    /\ rpc = "call"
    /\ RunIdle
    /\ CoercerIdle
    /\ AgentIdle
    /\ AuthIdle
    /\ GraphIdle

\* rres = _resolve_column(df, name)
Resolve ==
    /\ rpc = "call"
    /\ rres' = ResolveColumn(rcols, rname)
    /\ rpc' = "returned"
    /\ UNCHANGED <<rcols, rname, rname2, rres2, notRes>>

\* rres2 = _resolve_column(df, name2), a later call on the same table
ResolveAgain ==
    /\ rpc = "returned"
    /\ rres2' = ResolveColumn(rcols, rname2)
    /\ rpc' = "again"
    /\ UNCHANGED <<rcols, rname, rres, rname2, notRes>>

NextResolve == Resolve \/ ResolveAgain

SpecResolve == InitResolve /\ [][NextResolve]_vars

----------------------------------------------------------------------------
(* _smart_coerce_dataframe on its own: one text column *)

MaxCells == 5                 \* most rows of the column

\* cells of a text column: two that parse as numbers once "$", "," and "%"
\* are gone, one that parses as a date only, one that parses as nothing
CellTexts == {<<"$", "1", ",", "0", "0", "0">>, <<"5", "0", "%">>, <<"2", "0", "2", "4", "-", "0", "1", "-", "1", "5">>, <<"b", "a", "d">>}

\* column names: one that says nothing, one that is date-like
CoerceLabels == {<<"a", "m", "o", "u", "n", "t">>, <<"D", "a", "t", "e">>}

OneColumn(label, cells) ==
    Table(<<StrV(label)>>, <<"object">>, [r \in 1..Len(cells) |-> <<StrV(cells[r])>>])

CoerceTables ==
    {OneColumn(label, cells) :
        label \in CoerceLabels,
        cells \in UNION {[1..n -> CellTexts] : n \in 0..MaxCells}}

InitCoerce ==
    /\ cin \in CoerceTables
    /\ cout = EmptyTable
    /\ cpc = "call"
    /\ RunIdle
    /\ ResolverIdle
    /\ AgentIdle
    /\ AuthIdle
    /\ GraphIdle

\* cout = _smart_coerce_dataframe(cin)
CoerceCall ==
    /\ cpc = "call"
    /\ cout' = SmartCoerce(cin)
    /\ cpc' = "returned"
    /\ UNCHANGED <<cin, notCo>>

NextCoerce == CoerceCall

SpecCoerce == InitCoerce /\ [][NextCoerce]_vars

----------------------------------------------------------------------------
(* analysis_agent: plan, gate, execute, summarize, or fall back *)

MaxPlanSteps == 2             \* longest operation list of a generated plan

\* the "steps" entry of a plan: missing, a list of operation objects, or a
\* text where the list should be
NoSteps == [t |-> "absent", items |-> <<>>]
StepList(items) == [t |-> "list", items |-> items]
StepText(s) == [t |-> "str", items |-> s]

OperationObjects == LimitSteps \cup UnknownSteps

StepsEntries ==
    {NoSteps, StepText(<<>>), StepText(<<"f", "i", "l", "t", "e", "r">>)}
    \cup {StepList(items) : items \in UNION {[1..n -> OperationObjects] : n \in 0..MaxPlanSteps}}

\* what json.loads or a stub of _generate_analysis_plan can hand back: None,
\* a list, the empty dict, a dict with other keys and any "steps" entry
AgentPlans ==
    {[kind |-> "none", empty |-> TRUE, steps |-> NoSteps],
     [kind |-> "list", empty |-> FALSE, steps |-> NoSteps],
     [kind |-> "dict", empty |-> TRUE, steps |-> NoSteps]}
    \cup {[kind |-> "dict", empty |-> FALSE, steps |-> s] : s \in StepsEntries}

\* a gate that asks for a dict only, which is not the gate of the code
GateOnDict(p) == p.kind = "dict"

\* plan and isinstance(plan, dict) and plan.get("steps")
PassesGate(p) ==
    /\ p.kind # "none" /\ ~p.empty
    /\ p.kind = "dict"
    /\ p.steps.t # "absent" /\ Len(p.steps.items) > 0

InitAgent ==
    /\ agEnv \in [llmUp : BOOLEAN, agentUp : BOOLEAN]
    /\ agPlan = NoneV
    /\ agRan = FALSE
    /\ agRaised = "none"
    /\ agState = NothingStored
    /\ agPc = "generate"
    /\ RunIdle
    /\ ResolverIdle
    /\ CoercerIdle
    /\ AuthIdle
    /\ GraphIdle

\* plan = _generate_analysis_plan(llm, df, query)
GeneratePlan ==
    /\ agPc = "generate"
    /\ agEnv.llmUp
    /\ agPlan' \in AgentPlans
    /\ agPc' = "gate"
    /\ UNCHANGED <<agEnv, agRan, agRaised, agState, notAg>>

\* llm.invoke raises inside _generate_analysis_plan: except Exception: pass
GenerateRaises ==
    /\ agPc = "generate"
    /\ ~agEnv.llmUp
    /\ agRaised' = "generate"
    /\ agPc' = "fallback"
    /\ UNCHANGED <<agEnv, agPlan, agRan, agState, notAg>>

\* if plan and isinstance(plan, dict) and plan.get("steps")
Gate ==
    /\ agPc = "gate"
    /\ agPc' = IF PassesGate(agPlan) THEN "execute" ELSE "fallback"
    /\ UNCHANGED <<agEnv, agPlan, agRan, agRaised, agState, notAg>>

\* result_df, logs = _execute_analysis_plan(df, plan) returns: only steps
\* that are objects have a .get
ExecuteReturns ==
    /\ agPc = "execute"
    /\ agPlan.steps.t = "list"
    /\ agRan' = TRUE
    /\ agPc' = "summarize"
    /\ UNCHANGED <<agEnv, agPlan, agRaised, agState, notAg>>

\* _execute_analysis_plan raises (a step that is no object, or one of the
\* handlers): except Exception: pass
ExecuteRaises ==
    /\ agPc = "execute"
    /\ agRan' = TRUE
    /\ agRaised' = "execute"
    /\ agPc' = "fallback"
    /\ UNCHANGED <<agEnv, agPlan, agState, notAg>>

\* the entries of the state with the answer alone stored, which is not
\* what the structured path leaves
StoredAnswerOnly(st, p, answer) == [st EXCEPT !.answer = answer]

\* state["analysis_answer"] = summary; state["analysis_plan"] = plan;
\* state["analysis_table"] = {...}; state["analysis_logs"] = logs
Stored(st, p, answer) == [answer |-> answer, plan |-> p, table |-> TRUE, logs |-> TRUE]

\* _summarize_result never raises: when llm.invoke raises inside it, it
\* returns a description of the table
SummaryAnswers == {"summary", "table description"}

\* summary = _summarize_result(...); the answer, the plan, the table and
\* the logs are stored; return state
Summarize ==
    /\ agPc = "summarize"
    /\ \E answer \in SummaryAnswers : agState' = Stored(agState, agPlan, answer)
    /\ agPc' = "returned"
    /\ UNCHANGED <<agEnv, agPlan, agRan, agRaised, notAg>>

\* the pandas agent answers, or df.describe() when it raises
Fallback ==
    /\ agPc = "fallback"
    /\ agState' = [agState EXCEPT !.answer = IF agEnv.agentUp THEN "agent" ELSE "describe"]
    /\ agPc' = "returned"
    /\ UNCHANGED <<agEnv, agPlan, agRan, agRaised, notAg>>

NextAgent ==
    \/ GeneratePlan
    \/ GenerateRaises
    \/ Gate
    \/ ExecuteReturns
    \/ ExecuteRaises
    \/ Summarize
    \/ Fallback

SpecAgent == InitAgent /\ [][NextAgent]_vars

----------------------------------------------------------------------------
(* backend: auth_middleware and verify_request_authentication *)

\* str.upper() on one character
UpperCh(ch) ==
    IF \E i \in 1..Len(LowerCase) : LowerCase[i] = ch
    THEN UpperCase[Place(LowerCase, ch)] ELSE ch
Upper(s) == MapSeq(UpperCh, s)

\* str.rstrip("/")
RECURSIVE RStripSlash(_)
RStripSlash(s) ==
    IF Len(s) > 0 /\ s[Len(s)] = "/" THEN RStripSlash(SubSeq(s, 1, Len(s) - 1)) ELSE s

\* str.startswith(prefix)
StartsWith(s, prefix) == Len(s) >= Len(prefix) /\ SubSeq(s, 1, Len(prefix)) = prefix

\* s.split(" ", 1)[1] of a text that has a space
AfterFirstSpace(s) == SubSeq(s, IndexOf(s, " ") + 1, Len(s))

PublicPaths == {<<"/", "a", "p", "i", "/", "v", "1", "/", "h", "e", "a", "l", "t", "h">>, <<"/", "a", "p", "i", "/", "v", "1", "/", "l", "i", "v", "e", "z">>, <<"/", "a", "p", "i", "/", "v", "1", "/", "r", "e", "a", "d", "y", "z">>, <<"/", "a", "p", "i", "/", "v", "1", "/", "m", "e", "t", "r", "i", "c", "s">>}

\* _is_public_request(request)
IsPublicRequest(request) ==
    \/ Upper(request.method) = <<"O", "P", "T", "I", "O", "N", "S">>
    \/ /\ Upper(request.method) \in {<<"G", "E", "T">>, <<"H", "E", "A", "D">>}
       /\ Lower(RStripSlash(request.path)) \in PublicPaths

\* the fields of class Settings that the middleware reads; the class has no
\* field allow_unauthenticated, and extra="ignore" keeps it from getting one
SettingsFields == {"environment", "auth_bearer_token"}

\* verify_request_authentication(request): "ok" when it returns, "401" when
\* it raises HTTPException, "AttributeError" when reading a field the
\* settings object does not have raises
VerifyRequestAuthentication(settings, request) ==
    IF IsPublicRequest(request) THEN "ok"
    ELSE IF "allow_unauthenticated" \notin DOMAIN settings THEN "AttributeError"
    ELSE IF settings.allow_unauthenticated THEN "ok"
    ELSE IF ~Truthy(settings.auth_bearer_token)
    THEN (IF settings.environment # <<"p", "r", "o", "d", "u", "c", "t", "i", "o", "n">> THEN "ok" ELSE "401")
    ELSE IF \/ ~Truthy(request.authorization)
            \/ ~StartsWith(Lower(request.authorization.s), <<"b", "e", "a", "r", "e", "r", " ">>)
    THEN "401"
    ELSE IF AfterFirstSpace(request.authorization.s) # settings.auth_bearer_token.s THEN "401"
    ELSE "ok"

Secret == StrV(<<"s", "e", "c", "r", "e", "t">>)

AuthSettings ==
    [environment : {<<"p", "r", "o", "d", "u", "c", "t", "i", "o", "n">>, <<"d", "e", "v", "e", "l", "o", "p", "m", "e", "n", "t">>}, auth_bearer_token : {NoneV, Secret}]

AuthRequests ==
    [method : {<<"G", "E", "T">>, <<"H", "E", "A", "D">>, <<"P", "O", "S", "T">>, <<"O", "P", "T", "I", "O", "N", "S">>},
     path : {<<"/", "a", "p", "i", "/", "v", "1", "/", "h", "e", "a", "l", "t", "h">>, <<"/", "a", "p", "i", "/", "v", "1", "/", "h", "e", "a", "l", "t", "h", "/">>, <<"/", "A", "P", "I", "/", "V", "1", "/", "H", "e", "a", "l", "t", "h">>,
             <<"/", "a", "p", "i", "/", "v", "1", "/", "m", "e", "t", "r", "i", "c", "s">>, <<"/", "a", "p", "i", "/", "v", "1", "/", "a", "g", "e", "n", "t", "s", "/", "a", "n", "a", "l", "y", "z", "e">>, <<"/">>},
     authorization : {NoneV, StrV(<<"B", "e", "a", "r", "e", "r", " ", "s", "e", "c", "r", "e", "t">>), StrV(<<"b", "e", "a", "r", "e", "r", " ", "s", "e", "c", "r", "e", "t">>),
                      StrV(<<"B", "e", "a", "r", "e", "r", " ", "w", "r", "o", "n", "g">>), StrV(<<"B", "a", "s", "i", "c", " ", "s", "e", "c", "r", "e", "t">>)}]

InitAuth ==
    /\ auSettings \in AuthSettings
    /\ auRequest \in AuthRequests
    /\ auResponse = NoResponse
    /\ auPc = "verify"
    /\ RunIdle
    /\ ResolverIdle
    /\ CoercerIdle
    /\ AgentIdle
    /\ GraphIdle

\* auth_middleware: await verify_request_authentication(request); an
\* HTTPException becomes a JSONResponse with its status, any other
\* exception leaves the middleware and the server answers 500
Verify ==
    /\ auPc = "verify"
    /\ auResponse' =
          CASE VerifyRequestAuthentication(auSettings, auRequest) = "ok" -> NoResponse
            [] VerifyRequestAuthentication(auSettings, auRequest) = "401" ->
                  [status |-> "401", called |-> FALSE]
            [] OTHER -> [status |-> "500", called |-> FALSE]
    /\ auPc' = IF VerifyRequestAuthentication(auSettings, auRequest) = "ok"
               THEN "respond" ELSE "sent"
    /\ UNCHANGED <<auSettings, auRequest, notAuth>>

\* return await call_next(request): the router answers
CallNext ==
    /\ auPc = "respond"
    /\ auResponse' = [status |-> "routed", called |-> TRUE]
    /\ auPc' = "sent"
    /\ UNCHANGED <<auSettings, auRequest, notAuth>>

NextAuth ==
    \/ Verify
    \/ CallNext

SpecAuth == InitAuth /\ [][NextAuth]_vars
----------------------------------------------------------------------------
(* The graph of build_graph: router, ingestion, analysis, visualization, *)
(* finalize *)

\* the intents router_node looks for in the completion, in its order
Candidates ==
    <<<<"i", "n", "g", "e", "s", "t", "_", "t", "h", "e", "n", "_", "v", "i", "s", "u", "a", "l", "i", "z", "e">>, <<"i", "n", "g", "e", "s", "t", "_", "t", "h", "e", "n", "_", "a", "n", "a", "l", "y", "z", "e">>, <<"i", "n", "g", "e", "s", "t">>, <<"v", "i", "s", "u", "a", "l", "i", "z", "e">>, <<"a", "n", "a", "l", "y", "z", "e">>>>

Intents == {Candidates[i] : i \in 1..Len(Candidates)}

\* for candidate in [...]: if candidate in intent_raw: ... break -- the place
\* of the first candidate found in the text, 0 when the loop ends without break
FirstCandidate(intent_raw) ==
    IF \E i \in 1..Len(Candidates) : Contains(intent_raw, Candidates[i])
    THEN CHOOSE i \in 1..Len(Candidates) :
            /\ Contains(intent_raw, Candidates[i])
            /\ \A j \in 1..(i - 1) : ~Contains(intent_raw, Candidates[j])
    ELSE 0

Keywords == {<<"p", "l", "o", "t">>, <<"c", "h", "a", "r", "t">>, <<"g", "r", "a", "p", "h">>, <<"v", "i", "s", "u", "a", "l", "i", "z">>, <<"s", "h", "o", "w">>}

\* the fallback of router_node, the same in the for-else and in the except
Heuristic(query, has_new_upload, prefer_visual) ==
    IF has_new_upload /\ query # <<>> THEN <<"i", "n", "g", "e", "s", "t", "_", "t", "h", "e", "n", "_", "a", "n", "a", "l", "y", "z", "e">>
    ELSE IF has_new_upload THEN <<"i", "n", "g", "e", "s", "t">>
    ELSE IF prefer_visual \/ \E k \in Keywords : Contains(Lower(query), k) THEN <<"v", "i", "s", "u", "a", "l", "i", "z", "e">>
    ELSE <<"a", "n", "a", "l", "y", "z", "e">>

StateHeuristic(st) == Heuristic(Trim(st.query), st.has_new_upload, st.prefer_visual)

\* router_node(state) once get_llm() has returned
RouterNode(st, llm) ==
    [st EXCEPT !.intent =
        StrV(IF llm.raises THEN StateHeuristic(st)
             ELSE IF FirstCandidate(Lower(llm.content)) # 0
             THEN Candidates[FirstCandidate(Lower(llm.content))]
             ELSE StateHeuristic(st))]

\* state.get("intent", "analyze")
IntentOf(st) == IF st.intent = NoneV THEN <<"a", "n", "a", "l", "y", "z", "e">> ELSE st.intent.s

\* _route_from_router
RouteFromRouter(st) ==
    CASE IntentOf(st) = <<"i", "n", "g", "e", "s", "t">> -> "ingestion"
      [] IntentOf(st) = <<"a", "n", "a", "l", "y", "z", "e">> -> "analysis"
      [] IntentOf(st) = <<"v", "i", "s", "u", "a", "l", "i", "z", "e">> -> "visualization"
      [] IntentOf(st) = <<"i", "n", "g", "e", "s", "t", "_", "t", "h", "e", "n", "_", "a", "n", "a", "l", "y", "z", "e">> -> "ingestion"
      [] IntentOf(st) = <<"i", "n", "g", "e", "s", "t", "_", "t", "h", "e", "n", "_", "v", "i", "s", "u", "a", "l", "i", "z", "e">> -> "ingestion"
      [] OTHER -> "analysis"

\* every upload is analysed
AlwaysAnalysis(st) == "analysis"

\* _route_after_ingest
RouteAfterIngest(st) ==
    IF IntentOf(st) = <<"i", "n", "g", "e", "s", "t", "_", "t", "h", "e", "n", "_", "v", "i", "s", "u", "a", "l", "i", "z", "e">> THEN "visualization"
    ELSE IF IntentOf(st) = <<"i", "n", "g", "e", "s", "t", "_", "t", "h", "e", "n", "_", "a", "n", "a", "l", "y", "z", "e">> THEN "analysis"
    ELSE "finalize"

\* the texts analysis_agent may store as analysis_answer: the summary, or
\* str(answer) of the pandas agent, which may be empty
AnalysisAnswers == {StrV(<<"s", "u", "m", "m", "a", "r", "y">>), StrV(<<>>)}

\* visualization_agent: the caption
VisualizationAgent(st) ==
    [st EXCEPT !.analysis_answer =
        IF Truthy(@) THEN @ ELSE StrV(<<"S", "u", "g", "g", "e", "s", "t", "e", "d", " ", "v", "i", "s", "u", "a", "l", "i", "z", "a", "t", "i", "o", "n", " ", "s", "h", "o", "w", "n", " ", "b", "e", "l", "o", "w", ".">>)]

\* the analysis answer as it is, no generic message
AnswerAsIs(st) == [st EXCEPT !.final_answer = StrV(st.analysis_answer.s)]

\* finalize_node
FinalizeNode(st) ==
    [st EXCEPT !.final_answer =
        StrV(PyStr(IF Truthy(st.analysis_answer) THEN st.analysis_answer
                   ELSE StrV(<<"T", "a", "s", "k", " ", "c", "o", "m", "p", "l", "e", "t", "e", "d", ".">>)))]

Queries == {<<>>, <<" ", " ">>, <<"t", "o", "p", " ", "p", "r", "o", "d", "u", "c", "t", "s">>, <<"S", "h", "o", "w", " ", "s", "a", "l", "e", "s">>}

LlmReplies ==
    {[raises |-> TRUE, content |-> <<>>]} \cup
    {[raises |-> FALSE, content |-> c] :
        c \in {<<"i", "n", "g", "e", "s", "t">>, <<"A", "n", "a", "l", "y", "z", "e">>, <<"v", "i", "s", "u", "a", "l", "i", "z", "e", ".">>, <<"i", "n", "g", "e", "s", "t", "_", "t", "h", "e", "n", "_", "a", "n", "a", "l", "y", "z", "e">>,
               <<"I", "N", "G", "E", "S", "T", "_", "T", "H", "E", "N", "_", "V", "I", "S", "U", "A", "L", "I", "Z", "E">>, <<"i", "n", "g", "e", "s", "t", " ", "t", "h", "e", "n", " ", "v", "i", "s", "u", "a", "l", "i", "z", "e">>, <<"n", "o", "t", " ", "s", "u", "r", "e">>, <<>>}}

\* the nodes with a call outside any try: get_llm, read_csv,
\* create_pandas_dataframe_agent, _choose_chart_plan
RaisingNodes == {"router", "ingestion", "analysis", "visualization"}

\* app.invoke(initial_state)
InitGraph ==
    /\ grState \in {AppState(q, u, v) : q \in Queries, u \in BOOLEAN, v \in BOOLEAN}
    /\ grLlm \in LlmReplies
    /\ grFails \in {{}} \cup {{n} : n \in RaisingNodes}
    /\ grVisited = <<>>
    /\ grPc = "router"
    /\ RunIdle
    /\ ResolverIdle
    /\ CoercerIdle
    /\ AgentIdle
    /\ AuthIdle

Enter(node) ==
    /\ grPc = node
    /\ node \notin grFails
    /\ grVisited' = Append(grVisited, node)

\* the entry point, then the conditional edges of "router"
RunRouter ==
    /\ Enter("router")
    /\ grState' = RouterNode(grState, grLlm)
    /\ grPc' = RouteFromRouter(RouterNode(grState, grLlm))
    /\ UNCHANGED <<grLlm, grFails, notGraph>>

\* ingestion_agent returns the state as it got it; the conditional edges
\* of "ingestion"
RunIngestion ==
    /\ Enter("ingestion")
    /\ grPc' = RouteAfterIngest(grState)
    /\ UNCHANGED <<grState, grLlm, grFails, notGraph>>

\* analysis_agent, then the edge to "finalize"
RunAnalysis ==
    /\ Enter("analysis")
    /\ \E answer \in AnalysisAnswers : grState' = [grState EXCEPT !.analysis_answer = answer]
    /\ grPc' = "finalize"
    /\ UNCHANGED <<grLlm, grFails, notGraph>>

\* visualization_agent, then the edge to "finalize"
RunVisualization ==
    /\ Enter("visualization")
    /\ grState' = VisualizationAgent(grState)
    /\ grPc' = "finalize"
    /\ UNCHANGED <<grLlm, grFails, notGraph>>

\* finalize_node, the graph's last node
RunFinalize ==
    /\ Enter("finalize")
    /\ grState' = FinalizeNode(grState)
    /\ grPc' = "end"
    /\ UNCHANGED <<grLlm, grFails, notGraph>>

\* a node raises: the exception leaves app.invoke
NodeRaises ==
    /\ grPc \in grFails
    /\ grVisited' = Append(grVisited, grPc)
    /\ grPc' = "raised"
    /\ UNCHANGED <<grState, grLlm, grFails, notGraph>>

NextGraph ==
    \/ RunRouter
    \/ RunIngestion
    \/ RunAnalysis
    \/ RunVisualization
    \/ RunFinalize
    \/ NodeRaises

SpecGraph == InitGraph /\ [][NextGraph]_vars

\* langgraph runs the next node of an invocation until it reaches END
SpecGraphLive == SpecGraph /\ WF_vars(NextGraph)
----------------------------------------------------------------------------
(* Properties of the executor *)

\* the state right after a step of the plan was dispatched
AfterStep == last.step # NoStep

\* the step failed: an exception left its handler, caught or not
StepFailed == last.raised \/ last.caught

\* the column names a step gives, by op
NamedColumns(step) ==
    CASE OpTag(step) = <<"f", "i", "l", "t", "e", "r">> ->
            [i \in 1..Len(step.conditions) |-> step.conditions[i].column]
      [] OpTag(step) \in {<<"s", "e", "l", "e", "c", "t">>, <<"d", "a", "t", "e", "_", "p", "a", "r", "s", "e">>} -> step.columns
      [] OpTag(step) = <<"g", "r", "o", "u", "p", "b", "y", "_", "a", "g", "g">> ->
            step.by \o [i \in 1..Len(step.aggregations) |-> step.aggregations[i].column]
      [] OpTag(step) = <<"s", "o", "r", "t">> -> step.by
      [] OpTag(step) = <<"t", "o", "p", "k">> -> <<step.by>>
      [] OpTag(step) = <<"c", "o", "m", "p", "u", "t", "e">> ->
            SelectSeq(<<step.left.column, step.right.column>>, LAMBDA c : ~IsNull(c))
      [] OpTag(step) = <<"r", "e", "n", "a", "m", "e">> -> [i \in 1..Len(step.mapping) |-> step.mapping[i][1]]
      [] OpTag(step) = <<"c", "a", "s", "t">> -> [i \in 1..Len(step.types) |-> step.types[i][1]]
      [] OpTag(step) \in {<<"d", "a", "t", "e", "_", "t", "r", "u", "n", "c">>, <<"v", "a", "l", "u", "e", "_", "c", "o", "u", "n", "t", "s">>} -> <<step.column>>
      [] OpTag(step) = <<"w", "i", "n", "d", "o", "w", "_", "r", "a", "n", "k">> -> <<step.by>> \o step.partition_by
      [] OpTag(step) \in {<<"c", "u", "m", "s", "u", "m">>, <<"p", "c", "t", "_", "c", "h", "a", "n", "g", "e">>} -> <<step.column>> \o step.by
      [] OTHER -> <<>>

\* the step names columns and none of them resolves against the table
Unresolvable(tb, step) ==
    /\ Len(NamedColumns(step)) > 0
    /\ \A i \in 1..Len(NamedColumns(step)) :
          ResolveColumn(tb.cols, PyStr(NamedColumns(step)[i])) = NoneV

\* every sample step of the plan carries a random_state
AllSeeded(steps) ==
    \A i \in 1..Len(steps) :
        OpTag(steps[i]) = <<"s", "a", "m", "p", "l", "e">> => ~IsNull(steps[i].random_state)

\* C1: whatever the steps of the plan hold, _execute_analysis_plan returns
\* and never raises.  The code refutes it: int(k) of topk, arr[1] of a
\* between with one value and the aggregation of groupby_agg are outside any
\* try.
C1_NeverRaises == pc # "raised"

\* C2: when a step fails, the working table after it equals the working
\* table before it and the loop goes on to the next step.  The code refutes
\* it: a failing groupby_agg ends the call, and the except branch of topk
\* cuts the table to its first k rows.
C2_FailedStepPassesThrough ==
    (AfterStep /\ StepFailed) => (working = last.before /\ pc = "apply")

\* C3: a step with an unrecognized op tag, at any position of the plan,
\* leaves the working table and the log as they were and the loop goes on.
C3_UnknownOpIsNoOp ==
    (AfterStep /\ OpTag(last.step) \notin KnownOps)
        => (working = last.before /\ logs = last.log /\ pc = "apply")

\* C3 happens: an unknown op, dispatched second, after a step that logged
C3_UnknownOpDispatched ==
    /\ AfterStep
    /\ OpTag(last.step) \notin KnownOps
    /\ Len(plan) = 2
    /\ Len(logs) > 0

\* C4: the returned table never has more than 50 columns; when the table
\* after the last step has more, the returned table is its first 50 columns
\* with every row, and the log ends with the truncation entry.
C4_WidthCap ==
    pc = "done" =>
        /\ NCols(working) <= 50
        /\ NCols(last.before) > 50 =>
              /\ working.cols = SubSeq(last.before.cols, 1, 50)
              /\ working.dtypes = SubSeq(last.before.dtypes, 1, 50)
              /\ NRows(working) = NRows(last.before)
              /\ \A r \in 1..NRows(working) :
                    working.rows[r] = SubSeq(last.before.rows[r], 1, 50)
              /\ Len(logs) = Len(last.log) + 1
              /\ logs[Len(logs)][1] = "trim columns"
        /\ NCols(last.before) <= 50 => (working = last.before /\ logs = last.log)

\* C4 happens: a plan ran on the wide table and the result was cut
C4_WideTableReturned ==
    /\ pc = "done"
    /\ NCols(last.before) > 50
    /\ Len(plan) > 0
    /\ NCols(working) = 50

\* C5: whatever the plan does, and whether the call returns or raises, the
\* caller's table keeps the columns, dtypes and cells it was passed with.
C5_InputUntouched == callerDf = input

\* the ops that write into the working table in place
InPlaceOps ==
    {<<"c", "o", "m", "p", "u", "t", "e">>, <<"c", "a", "s", "t">>, <<"d", "a", "t", "e", "_", "p", "a", "r", "s", "e">>, <<"d", "a", "t", "e", "_", "t", "r", "u", "n", "c">>, <<"w", "i", "n", "d", "o", "w", "_", "r", "a", "n", "k">>,
     <<"c", "u", "m", "s", "u", "m">>, <<"p", "c", "t", "_", "c", "h", "a", "n", "g", "e">>}

\* C5 happens: an in-place op changed the working table and the call returned
C5_InPlaceOpReturned ==
    /\ pc = "done"
    /\ working # input
    /\ \E i \in 1..Len(plan) : OpTag(plan[i]) \in InPlaceOps

C7_UnresolvedIsNoOp ==
    (AfterStep /\ Unresolvable(last.before, last.step))
        => (working = last.before /\ logs = last.log /\ pc = "apply")

\* C8: a step that was applied appends exactly one log line, a step that
\* failed or left the table as it was appends none.  The code refutes it:
\* compute with an unknown operation, cast and date_parse without a
\* resolvable column and the except branch of topk all log.
C8_LogIffApplied ==
    AfterStep =>
        IF StepFailed \/ working = last.before
        THEN logs = last.log
        ELSE Len(logs) = Len(last.log) + 1

\* one transition of a run in phase order: coercion is the first phase and
\* runs once; a step is dispatched after coercion or after another step, is
\* the next one of the plan and takes the table the phase before it left;
\* the cap follows coercion or a step and ends the run
PhaseStep ==
    \/ /\ trace = <<>>
       /\ trace' = <<"coerce">>
       /\ plan' = plan
    \/ /\ trace # <<>>
       /\ trace[Len(trace)] \in {"coerce", "op"}
       /\ trace' = Append(trace, "op")
       /\ Len(plan') = Len(plan) + 1
       /\ SubSeq(plan', 1, Len(plan)) = plan
       /\ last'.step = plan'[Len(plan')]
       /\ last'.before = working
    \/ /\ trace # <<>>
       /\ trace[Len(trace)] \in {"coerce", "op"}
       /\ trace' = Append(trace, "cap")
       /\ plan' = plan
       /\ pc' = "done"

\* C9: the phases run in a fixed linear order: coercion once and first, the
\* steps in plan order, each on the table the previous phase produced, the
\* cap only after the last step.
C9_LinearPhases == [][PhaseStep]_vars

\* C9 happens: a run of coercion, two steps and the cap
C9_FullRun == trace = <<"coerce", "op", "op", "cap">>

----------------------------------------------------------------------------
(* Properties of the resolver *)

LabelOf(i) == rcols[i].s
RatioOf(i) == Ratio(Lower(LabelOf(i)), Lower(rname))

\* C10: the three tiers, first match wins: the requested name when it is a
\* column, even if other columns match it otherwise; else a column equal to
\* it ignoring case; else a column of the highest similarity ratio, when
\* that is at least 0.8; else not found.
C10_ThreeTiers ==
    rpc = "returned" =>
        IF \E i \in 1..Len(rcols) : LabelOf(i) = rname
        THEN rres = StrV(rname)
        ELSE IF \E i \in 1..Len(rcols) : Lower(LabelOf(i)) = Lower(rname)
        THEN \E i \in 1..Len(rcols) : Lower(LabelOf(i)) = Lower(rname) /\ rres = rcols[i]
        ELSE IF \E i \in 1..Len(rcols) : FracGeq(RatioOf(i), <<8, 10>>)
        THEN \E i \in 1..Len(rcols) :
                /\ rres = rcols[i]
                /\ \A j \in 1..Len(rcols) : FracGeq(RatioOf(i), RatioOf(j))
        ELSE rres = NoneV

\* C10 happens: the exact name is returned although another column equals
\* it ignoring case and comes later
C10_ExactBeatsCaseInsensitive ==
    /\ rpc = "returned"
    /\ rcols = <<StrV(<<"R", "e", "g", "i", "o", "n">>), StrV(<<"r", "e", "g", "i", "o", "n">>)>>
    /\ rname = <<"R", "e", "g", "i", "o", "n">>
    /\ rres = StrV(<<"R", "e", "g", "i", "o", "n">>)
\* the fuzzy tier is reached: no column equals the requested name, not even
\* ignoring case
FuzzyReached ==
    /\ rpc = "returned"
    /\ \A i \in 1..Len(rcols) : Lower(LabelOf(i)) # Lower(rname)

\* C11: in the fuzzy tier the lowercased name is compared with the
\* lowercased labels; a column is returned exactly when some label has a
\* similarity ratio of at least 0.8, and it is then one of the highest
\* ratio.  "Reveneu" resolves to "Revenue" and finds nothing in a table
\* whose only column is "Region".
C11_FuzzyThreshold ==
    FuzzyReached =>
        /\ rres # NoneV <=> \E i \in 1..Len(rcols) : FracGeq(RatioOf(i), <<8, 10>>)
        /\ rres # NoneV =>
              \E i \in 1..Len(rcols) :
                  /\ rres = rcols[i]
                  /\ FracGeq(RatioOf(i), <<8, 10>>)
                  /\ \A j \in 1..Len(rcols) : FracGeq(RatioOf(i), RatioOf(j))
        /\ (rname = <<"R", "e", "v", "e", "n", "e", "u">> /\ rcols = <<StrV(<<"R", "e", "v", "e", "n", "u", "e">>)>>) => rres = StrV(<<"R", "e", "v", "e", "n", "u", "e">>)
        /\ (rname = <<"R", "e", "v", "e", "n", "e", "u">> /\ rcols = <<StrV(<<"R", "e", "g", "i", "o", "n">>)>>) => rres = NoneV

\* C11 happens: "Reveneu" asked of the columns Region and Revenue passes
\* over the first and finds the second
C11_TypoResolved ==
    /\ FuzzyReached
    /\ rname = <<"R", "e", "v", "e", "n", "e", "u">>
    /\ rcols = <<StrV(<<"R", "e", "g", "i", "o", "n">>), StrV(<<"R", "e", "v", "e", "n", "u", "e">>)>>
    /\ rres = StrV(<<"R", "e", "v", "e", "n", "u", "e">>)
\* both calls of the resolver have returned
CalledTwice == rpc = "again"

\* the two requested names differ at most in letter case, and some column
\* equals them ignoring case
SameIgnoringCase ==
    /\ Lower(rname) = Lower(rname2)
    /\ \E i \in 1..Len(rcols) : Lower(LabelOf(i)) = Lower(rname)

NeitherExact == \A i \in 1..Len(rcols) : LabelOf(i) # rname /\ LabelOf(i) # rname2

\* C12 as amended: two calls with the same table and the same name return
\* the same result; two names that differ only in letter case resolve to
\* the same column when a column equals them ignoring case and neither
\* name is itself a column name.
C12_PureAndCaseBlind ==
    CalledTwice =>
        /\ rname = rname2 => rres = rres2
        /\ (SameIgnoringCase /\ NeitherExact) => (rres = rres2 /\ rres # NoneV)

\* C12 happens: "Region" and "region" asked of a table whose column is
\* "REGION" both find it
C12_BothFindUpperCase ==
    /\ CalledTwice
    /\ rcols = <<StrV(<<"R", "E", "G", "I", "O", "N">>)>>
    /\ rname = <<"R", "e", "g", "i", "o", "n">> /\ rname2 = <<"r", "e", "g", "i", "o", "n">>
    /\ rres = StrV(<<"R", "E", "G", "I", "O", "N">>) /\ rres2 = StrV(<<"R", "E", "G", "I", "O", "N">>)

\* C12 as stated: names that differ only in letter case resolve to the same
\* column whenever a column equals them ignoring case.  The code refutes
\* it: with the columns "Region" and "region" each name finds itself.
C12_CaseNeverMatters ==
    CalledTwice =>
        /\ rname = rname2 => rres = rres2
        /\ SameIgnoringCase => rres = rres2
----------------------------------------------------------------------------
(* Properties of the coercer *)

Coerced == cpc = "returned"

\* the cells of the one column, before and after
CellsIn == [r \in 1..NRows(cin) |-> cin.rows[r][1]]
CellsOut == [r \in 1..NRows(cout) |-> cout.rows[r][1]]

\* the number a cell spells once "$", "," and "%" are taken out of it, NaN
\* if it spells none
Parsed(r) == ParseNum(Strip(CellsIn[r].s, {"$", ",", "%"}))

\* how many cells spell a number
ParsedCount == Cardinality({r \in 1..NRows(cin) : Parsed(r).t = "num"})

\* C13: a text column is replaced by its numeric parse if and only if more
\* than 0.6 of its values parse (exactly 0.6 is not enough); in the
\* replaced column the values that did not parse are missing, and the
\* column is numeric, not a timestamp column, whatever its name.
C13_NumericAboveSixTenths ==
    Coerced =>
        /\ NRows(cout) = NRows(cin)
        /\ IsNumericDtype(cout.dtypes[1]) <=> (10 * ParsedCount > 6 * NRows(cin))
        /\ IsNumericDtype(cout.dtypes[1]) => \A r \in 1..NRows(cin) : CellsOut[r] = Parsed(r)

\* C13 happens: four of the five values of a column called Date parse, one
\* is lost, and the column is numeric
C13_FourOfFiveParsed ==
    /\ Coerced
    /\ cin.cols = <<StrV(<<"D", "a", "t", "e">>)>>
    /\ NRows(cin) = 5 /\ ParsedCount = 4
    /\ IsNumericDtype(cout.dtypes[1])
    /\ \E r \in 1..5 : CellsOut[r] = NaN
\* no value of the column spells a timestamp
NoneIsDate == \A r \in 1..NRows(cin) : ParseDate(CellsIn[r].s).t # "ts"

\* C14: a text column that is not mostly numeric, has a date-like name and
\* holds no value that parses as a timestamp comes out as the text column it
\* was.  The code refutes it: pd.to_datetime(errors="coerce") does not fail
\* on such a column, it returns a timestamp column of NaT, which replaces
\* the text.
C14_FailedDateParseKeepsText ==
    (/\ Coerced
     /\ NRows(cin) > 0
     /\ ~(10 * ParsedCount > 6 * NRows(cin))
     /\ DateLikeName(cin.cols[1])
     /\ NoneIsDate)
    => cout = cin
----------------------------------------------------------------------------
(* Properties of single operations *)

\* the step just dispatched repeats the step before it
Repeated ==
    /\ AfterStep
    /\ Len(plan) >= 2
    /\ plan[Len(plan)] = plan[Len(plan) - 1]

\* C15: the same filter applied twice in a row gives the table it gives
\* applied once.  The code refutes it for a column of mixed kinds: the
\* comparison raises on the first pass and the string fallback keeps the
\* rows equal to the value; on the rows kept the comparison no longer raises
\* and is evaluated as written.
C15_FilterIdempotent ==
    (Repeated /\ OpTag(last.step) = <<"f", "i", "l", "t", "e", "r">> /\ pc # "raised") => working = last.before
\* a topk step was dispatched and returned
TopkDone == AfterStep /\ OpTag(last.step) = <<"t", "o", "p", "k">> /\ ~last.raised

\* the key of the topk step as the resolver finds it in the table before
TopkKey ==
    IF Truthy(last.step.by) THEN ResolveColumn(last.before.cols, PyStr(last.step.by)) ELSE NoneV

\* the key names a numeric column of the table
TopkNumeric ==
    /\ Truthy(TopkKey)
    /\ HasCol(last.before, TopkKey)
    /\ DtypeOf(last.before, TopkKey) \in {"int64", "float64"}

\* the table holds `count` rows of the table before, each taken once, with
\* the highest values of column c, the highest first
HighestFirst(tb, before, c, count) ==
    /\ tb.cols = before.cols
    /\ NRows(tb) = count
    /\ \A i, j \in 1..NRows(tb) : i < j => ~ValLess(tb.rows[i][c], tb.rows[j][c])
    /\ \E f \in [1..NRows(tb) -> 1..NRows(before)] :
          /\ \A i, j \in 1..NRows(tb) : i # j => f[i] # f[j]
          /\ \A i \in 1..NRows(tb) : tb.rows[i] = before.rows[f[i]]
          /\ \A q \in 1..NRows(before) :
                (\A i \in 1..NRows(tb) : f[i] # q) =>
                    \A i \in 1..NRows(tb) : ~ValLess(tb.rows[i][c], before.rows[q][c])

\* C16: topk (with a count k >= 0) by a resolved numeric column returns the
\* min(k, row count) rows with the highest values of the column, highest
\* first; with a key that is absent, unresolved or not numeric it returns
\* the first min(k, row count) rows in their order.
C16_TopkHighestFirst ==
    (TopkDone /\ last.step.k.n >= 0) =>
        IF TopkNumeric
        THEN HighestFirst(working, last.before, ColIdx(last.before, TopkKey),
                          Min(last.step.k.n, NRows(last.before)))
        ELSE working = [last.before EXCEPT
                          !.rows = SubSeq(@, 1, Min(last.step.k.n, NRows(last.before)))]

\* C16 happens: the two highest revenues of the sales table, 300 before 100
C16_TopTwoByRevenue ==
    /\ TopkDone /\ TopkNumeric
    /\ Len(plan) = 1
    /\ last.step.k = NumV(2)
    /\ NRows(last.before) = 3
    /\ [r \in 1..NRows(working) |-> working.rows[r][2]] = <<NumV(300), NumV(100)>>
\* a groupby_agg step was dispatched and returned
GroupbyDone == AfterStep /\ OpTag(last.step) = <<"g", "r", "o", "u", "p", "b", "y", "_", "a", "g", "g">> /\ ~last.raised

\* the key columns of the step that resolve in the table before
GroupKeys == ResolveList(last.before.cols, last.step.by)

\* the (column, function) pairs of the aggregation list: the column as
\* resolved, the function one of sum, mean, count, min, max, median
GroupPairs ==
    LET aggs == last.step.aggregations
        col(i) == ResolveColumn(last.before.cols, PyStr(aggs[i].column))
        func(i) == Lower(PyStr(GetOr(aggs[i].agg, StrV(<<"s", "u", "m">>))))
    IN  {<<col(i), func(i)>> : i \in {j \in 1..Len(aggs) : Truthy(col(j)) /\ func(j) \in AggFuncs}}

\* the cells of a row in the key columns
KeyOf(tb, r) == [k \in 1..Len(GroupKeys) |-> tb.rows[r][ColIdx(tb, GroupKeys[k])]]

\* the cells of a column of the table before, in the rows of one key
GroupCells(key, label) ==
    LET rows == SelectSeq([r \in 1..NRows(last.before) |-> r],
                          LAMBDA r : KeyOf(last.before, r) = key)
    IN  [m \in 1..Len(rows) |-> last.before.rows[rows[m]][ColIdx(last.before, label)]]

\* C17: groupby_agg with a resolved key and a list of (column, function)
\* pairs returns, when the aggregation does not raise, one row per distinct
\* key combination; its columns are the keys followed by one flattened
\* column per pair, holding that function of that column over the rows of
\* the group.
C17_OneRowPerGroup ==
    (GroupbyDone /\ Len(GroupKeys) > 0 /\ GroupPairs # {}) =>
        /\ SubSeq(working.cols, 1, Len(GroupKeys)) = GroupKeys
        /\ NCols(working) = Len(GroupKeys) + Cardinality(GroupPairs)
        /\ \A p \in GroupPairs :
              \E c \in (Len(GroupKeys) + 1)..NCols(working) :
                  /\ working.cols[c] = FlatName(p[1], p[2])
                  /\ \A g \in 1..NRows(working) :
                        working.rows[g][c] =
                            AggVal(DtypeOf(last.before, p[1]), p[2],
                                   GroupCells(KeyOf(working, g), p[1]))
        /\ \A r \in 1..NRows(last.before) :
              \E g \in 1..NRows(working) : KeyOf(working, g) = KeyOf(last.before, r)
        /\ \A g, h \in 1..NRows(working) : g # h => KeyOf(working, g) # KeyOf(working, h)
        /\ \A g \in 1..NRows(working) :
              \E r \in 1..NRows(last.before) : KeyOf(working, g) = KeyOf(last.before, r)

\* C17 happens: the revenues 100, 300 and 50 of the regions A, B and A
\* summed by region give (A, 150) and (B, 300)
C17_RevenueSummedByRegion ==
    /\ GroupbyDone
    /\ Len(plan) = 1
    /\ working.cols = <<Region, StrV(<<"r", "e", "v", "e", "n", "u", "e", "_", "s", "u", "m">>)>>
    /\ working.rows = << <<StrV(<<"A">>), NumV(150)>>, <<StrV(<<"B">>), NumV(300)>> >>
\* a value_counts step with normalize=True counted a column and returned
SharesDone ==
    /\ AfterStep /\ OpTag(last.step) = <<"v", "a", "l", "u", "e", "_", "c", "o", "u", "n", "t", "s">> /\ ~last.raised
    /\ Truthy(GetOr(last.step.normalize, BoolV(FALSE)))
    /\ Truthy(ResolveColumn(last.before.cols, PyStr(last.step.column)))
    /\ HasCol(last.before, ResolveColumn(last.before.cols, PyStr(last.step.column)))

\* the cells of the counted column before the step, and those that hold a value
Counted == Column(last.before, ResolveColumn(last.before.cols, PyStr(last.step.column)))
CountedValues == {Counted[r] : r \in {q \in 1..Len(Counted) : ~IsNull(Counted[q])}}

\* the part of the non-missing cells that hold v
ShareOf(v) ==
    Frac(Cardinality({r \in 1..Len(Counted) : Counted[r] = v}),
         Cardinality({r \in 1..Len(Counted) : ~IsNull(Counted[r])}))

\* the top-k cap of the step
TopOf == GetOr(last.step.k, NumV(20)).n

\* every row pairs a value with its share, each distinct value has its row,
\* greater shares come first and the shares add up to 1
SharesComplete ==
    /\ NRows(working) = Cardinality(CountedValues)
    /\ \A v \in CountedValues :
          \E g \in 1..NRows(working) : working.rows[g] = <<v, ShareOf(v)>>
    /\ \A g, h \in 1..NRows(working) :
          g < h => ~NumLess(working.rows[g][2], working.rows[h][2])
    /\ NumEq(SumVals([g \in 1..NRows(working) |-> working.rows[g][2]]), NumV(1))

\* C18 as amended: value_counts with normalize=true on a resolved column
\* that holds a value, with a cap k no smaller than the number of its
\* distinct values, returns one row per distinct value with the value's
\* share of the non-missing rows, most frequent first, and the shares sum
\* to 1.
C18_SharesWithinCap ==
    (SharesDone /\ CountedValues # {} /\ Cardinality(CountedValues) <= TopOf)
        => SharesComplete

\* C18 happens: y, x, x counted give x with 2/3 and then y with 1/3
C18_TwoThirdsOneThird ==
    /\ SharesDone
    /\ Len(plan) = 1
    /\ working.rows = << <<StrV(<<"x">>), Frac(2, 3)>>, <<StrV(<<"y">>), Frac(1, 3)>> >>

\* C18 as stated: value_counts with normalize=true returns one row per
\* distinct value and shares that sum to 1, whatever the cap.  The code
\* refutes it: head(top) cuts the rows to the top k.
C18_SharesAlwaysComplete ==
    (SharesDone /\ CountedValues # {}) => SharesComplete
\* C19: the column names of the working table, after every step and in the
\* table returned, are pairwise distinct.  The code refutes it: select takes
\* a column once for every name of its list that resolves to it.
C19_ColumnNamesUnique ==
    \A c, d \in 1..NCols(working) : c # d => working.cols[c] # working.cols[d]
----------------------------------------------------------------------------
(* Properties of analysis_agent *)

\* the plan is absent, empty, or has no operation or an empty operation list
NoOperations ==
    \/ agPlan.kind = "none"
    \/ agPlan.kind = "dict" /\ agPlan.empty
    \/ agPlan.kind = "dict" /\ agPlan.steps.t = "absent"
    \/ agPlan.kind = "dict" /\ agPlan.steps = StepList(<<>>)

\* C20: analysis_agent calls the executor only for a plan that is a mapping
\* with a non-empty "steps" entry, a list or not; for a plan that is absent, empty or has
\* an empty operation list the executor is not called, no plan, table or
\* log is stored, and the answer is the one of the fallback path.
C20_ExecutorBehindGate ==
    /\ agRan => (agPlan.kind = "dict" /\ Len(agPlan.steps.items) > 0)
    /\ (agPc = "returned" /\ agEnv.llmUp /\ NoOperations) =>
          /\ ~agRan
          /\ agState.plan = NoneV /\ ~agState.table /\ ~agState.logs
          /\ agState.answer \in {"agent", "describe"}
    /\ (agPc = "returned" /\ agState.answer = "summary") =>
          /\ agRan
          /\ agState.plan = agPlan /\ agState.table /\ agState.logs

\* C20 as stated: the executor is called only for a plan whose "steps" entry
\* is a non-empty list of operations. A non-empty text in its place passes
\* the gate as well, the executor is called and raises, and the fallback
\* path answers.
C20_OnlyForOperationLists ==
    agRan => (agPlan.kind = "dict" /\ agPlan.steps.t = "list" /\ Len(agPlan.steps.items) > 0)

\* C20 happens: a plan with an empty operation list was generated and the
\* pandas agent gave the answer
C20_EmptyListFellBack ==
    /\ agPc = "returned"
    /\ agPlan = [kind |-> "dict", empty |-> FALSE, steps |-> StepList(<<>>)]
    /\ ~agRan
    /\ agState = [NothingStored EXCEPT !.answer = "agent"]
----------------------------------------------------------------------------
(* Properties of cast, select, filter and sort *)

\* the step just applied was a cast of one column that resolves
CastDone ==
    /\ AfterStep
    /\ OpTag(last.step) = <<"c", "a", "s", "t">>
    /\ Len(last.step.types) = 1
    /\ Truthy(ResolveColumn(last.before.cols, PyStr(last.step.types[1][1])))

CastColumn == ResolveColumn(last.before.cols, PyStr(last.step.types[1][1]))
CastTarget == ParseDtype(last.step.types[1][2])

\* the value has no counterpart of the declared type
Unconvertible(v, target) ==
    CASE IsNull(v) -> FALSE
      [] target = "int64" -> ~PyInt(v)[1]
      [] target = "float64" -> v.t = "str" /\ ParseNum(Trim(v.s)).t # "num"
      [] target = "datetime64[ns]" -> v.t = "str" /\ ParseDate(v.s) = NaN
      [] OTHER -> FALSE

\* C21: cast raises nothing, and a value that cannot be converted to the
\* declared type has its original value in the result.  The code refutes
\* it for datetime: pd.to_datetime(errors="coerce") puts NaT in the place
\* of a text that names no day.
C21_CastKeepsUnconvertible ==
    CastDone =>
        /\ pc = "apply"
        /\ \A r \in 1..NRows(last.before) :
              Unconvertible(Column(last.before, CastColumn)[r], CastTarget)
                  => Column(working, CastColumn)[r] = Column(last.before, CastColumn)[r]
\* the step just applied was a select
SelectDone == AfterStep /\ OpTag(last.step) = <<"s", "e", "l", "e", "c", "t">>

Requested == ResolveList(last.before.cols, last.step.columns)

\* C22: select gives the columns the requested names resolve to, in the
\* order the plan lists them, with every row in its place; names that do
\* not resolve are left out; when none resolves the table and the log are
\* as they were.
C22_SelectProjectsInPlanOrder ==
    SelectDone =>
        /\ pc = "apply"
        /\ IF Len(Requested) = 0
           THEN working = last.before /\ logs = last.log
           ELSE /\ working.cols = Requested
                /\ NRows(working) = NRows(last.before)
                /\ \A r \in 1..NRows(working) : \A k \in 1..Len(Requested) :
                      working.rows[r][k] = Column(last.before, Requested[k])[r]
                /\ Len(logs) = Len(last.log) + 1

\* C22 happens: qty and region were selected in that order from a table
\* that has region first
C22_QtyBeforeRegion ==
    /\ SelectDone
    /\ last.before.cols = <<Region, Qty>>
    /\ working.cols = <<Qty, Region>>
    /\ NRows(working) = 4
\* the step just applied was a filter that returned
FilterDone == AfterStep /\ OpTag(last.step) = <<"f", "i", "l", "t", "e", "r">> /\ ~last.raised

FilterOps == CmpOps \cup {<<"c", "o", "n", "t", "a", "i", "n", "s">>, <<"i", "n">>, <<"n", "o", "t", "_", "i", "n">>, <<"b", "e", "t", "w", "e", "e", "n">>}

CondOp(cond) == Lower(PyStr(GetOr(cond.operator, StrV(<<"=", "=">>))))
CondColumn(tb, cond) == ResolveColumn(tb.cols, PyStr(cond.column))

\* the condition is passed over: its column does not resolve or its
\* operator is none of the ten
PassedOver(tb, cond) == ~Truthy(CondColumn(tb, cond)) \/ CondOp(cond) \notin FilterOps

SameKind(v, y) == ~IsNull(v) /\ ~IsNull(y) /\ Kind(v) = Kind(y)

\* the operands of the condition, numbers where they spell numbers
CondOperands(cond) ==
    IF cond.isList THEN [i \in 1..Len(cond.values) |-> AsNumber(cond.values[i])]
    ELSE <<AsNumber(cond.value)>>

\* the cell can be judged against the condition as it stands: it is of the
\* kind of the operands it is compared with
Judged(v, cond) ==
    CASE CondOp(cond) \in CmpOps -> SameKind(v, CondOperands(cond)[1])
      [] CondOp(cond) = <<"b", "e", "t", "w", "e", "e", "n">> ->
            /\ Len(CondOperands(cond)) = 2
            /\ SameKind(v, CondOperands(cond)[1]) /\ SameKind(v, CondOperands(cond)[2])
      [] CondOp(cond) = <<"c", "o", "n", "t", "a", "i", "n", "s">> -> v.t = "str" /\ cond.ci
      [] OTHER -> ~IsNull(v)

\* the cell satisfies the condition
Satisfies(v, cond) ==
    CASE CondOp(cond) \in CmpOps -> CmpVal(CondOp(cond), v, CondOperands(cond)[1])
      [] CondOp(cond) = <<"b", "e", "t", "w", "e", "e", "n">> ->
            /\ ~ValLess(v, CondOperands(cond)[1])
            /\ ~ValLess(CondOperands(cond)[2], v)
      [] CondOp(cond) = <<"c", "o", "n", "t", "a", "i", "n", "s">> -> Contains(Lower(v.s), Lower(PyStr(cond.value)))
      [] CondOp(cond) = <<"i", "n">> ->
            \E i \in 1..Len(CondOperands(cond)) :
                SameKind(v, CondOperands(cond)[i]) /\ ValEq(v, CondOperands(cond)[i])
      [] CondOp(cond) = <<"n", "o", "t", "_", "i", "n">> ->
            ~\E i \in 1..Len(CondOperands(cond)) :
                SameKind(v, CondOperands(cond)[i]) /\ ValEq(v, CondOperands(cond)[i])

\* the conditions of the step that are not passed over
Live(tb, step) ==
    {i \in 1..Len(step.conditions) : ~PassedOver(tb, step.conditions[i])}

CellFor(tb, cond, r) == Column(tb, CondColumn(tb, cond))[r]

RowJudged(tb, step, r) ==
    \A i \in Live(tb, step) : Judged(CellFor(tb, step.conditions[i], r), step.conditions[i])

RowSatisfies(tb, step, r) ==
    \A i \in Live(tb, step) : Satisfies(CellFor(tb, step.conditions[i], r), step.conditions[i])

\* the rows of tb at the positions of K, in the order of tb
RowsAt(tb, K) == TakeRows(tb, Positions(LAMBDA r : r \in K, 1, NRows(tb)))

\* C23: filter keeps the rows that satisfy every condition it does not pass
\* over, in their order and with the columns as they were; between takes
\* both bounds in, in with no value keeps no row.  Rows with a cell that is
\* not of the kind of an operand are left open here.  The code refutes it
\* all the same: when an ordering comparison raises on one cell of the
\* column, the condition becomes string equality for every row, and a row
\* holding 5 is kept by code > 5.
C23_FilterKeepsSatisfying ==
    FilterDone =>
        \E K \in SUBSET (1..NRows(last.before)) :
            /\ working = RowsAt(last.before, K)
            /\ \A r \in 1..NRows(last.before) :
                  RowJudged(last.before, last.step, r)
                      => (r \in K <=> RowSatisfies(last.before, last.step, r))
\* the step just applied was a sort that went through
SortDone == AfterStep /\ OpTag(last.step) = <<"s", "o", "r", "t">> /\ ~StepFailed

\* the key columns of the sort, by position: the resolved names, or every
\* column when none resolves
SortKeys ==
    LET named == ResolveList(last.before.cols, last.step.by)
        by == IF Len(named) > 0 THEN named ELSE last.before.cols
    IN  [i \in 1..Len(by) |-> ColIdx(last.before, by[i])]

\* the rows agree on every sort key
SameKeys(a, b) == \A i \in 1..Len(SortKeys) : a[SortKeys[i]] = b[SortKeys[i]]

Rearrangements(n) == {p \in [1..n -> 1..n] : \A i, j \in 1..n : p[i] = p[j] => i = j}

\* C24: sort is stable: the result is a rearrangement of the rows in which
\* any two rows with equal sort keys are in the order they had.  The code
\* refutes it: with one key, sort_values runs numpy's quicksort, which
\* does not keep equal keys in order on every build and size.
C24_SortStable ==
    SortDone =>
        /\ working.cols = last.before.cols
        /\ \E p \in Rearrangements(NRows(last.before)) :
              /\ working.rows = [k \in 1..NRows(last.before) |-> last.before.rows[p[k]]]
              /\ \A k, l \in 1..NRows(last.before) :
                    (k < l /\ SameKeys(last.before.rows[p[k]], last.before.rows[p[l]]))
                        => p[k] < p[l]
----------------------------------------------------------------------------
(* Properties of the auth middleware *)

\* production, a bearer token configured, unauthenticated access not
\* enabled, and the response sent
ProductionAnswered ==
    /\ auPc = "sent"
    /\ auSettings.environment = <<"p", "r", "o", "d", "u", "c", "t", "i", "o", "n">>
    /\ auSettings.auth_bearer_token = Secret
    /\ ("allow_unauthenticated" \in DOMAIN auSettings => ~auSettings.allow_unauthenticated)

HealthWithoutHeader ==
    /\ auRequest.method = <<"G", "E", "T">>
    /\ auRequest.path = <<"/", "a", "p", "i", "/", "v", "1", "/", "h", "e", "a", "l", "t", "h">>
    /\ auRequest.authorization = NoneV

ValidBearer ==
    /\ auRequest.authorization.t = "str"
    /\ StartsWith(Lower(auRequest.authorization.s), <<"b", "e", "a", "r", "e", "r", " ">>)
    /\ AfterFirstSpace(auRequest.authorization.s) = Secret.s

NonPublicPath == Lower(RStripSlash(auRequest.path)) \notin PublicPaths

\* C25: in production with a token configured, GET /api/v1/health without
\* an Authorization header is served, and a request to a non-public path
\* without a valid bearer token is answered 401 without call_next.  The
\* code refutes the 401: settings has no field allow_unauthenticated, the
\* read at line 35 raises AttributeError, which the middleware does not
\* catch, and the answer is 500.
C25_HealthPublicOthers401 ==
    ProductionAnswered =>
        /\ HealthWithoutHeader => auResponse = [status |-> "routed", called |-> TRUE]
        /\ (NonPublicPath /\ auRequest.method # <<"O", "P", "T", "I", "O", "N", "S">> /\ ~ValidBearer)
              => auResponse = [status |-> "401", called |-> FALSE]
----------------------------------------------------------------------------
(* Properties of the resolver on the tables the executor produces *)

\* C26: a name the resolver returns is a label of the table it was asked
\* about, also when the labels are not text.  The code refutes it: tiers
\* two and three return str(c), and after a pivot on a numeric column the
\* label 1 is resolved from "1" to the text "1", which is no label.
C26_ResolvedIsLabel ==
    AfterStep =>
        \A i \in 1..Len(NamedColumns(last.step)) :
            Truthy(ResolveColumn(last.before.cols, PyStr(NamedColumns(last.step)[i])))
                => HasCol(last.before,
                          ResolveColumn(last.before.cols, PyStr(NamedColumns(last.step)[i])))
----------------------------------------------------------------------------
(* The rows an operation leaves *)

\* the ops said to leave the number and the order of the rows alone
RowKeepingOps ==
    {<<"c", "o", "m", "p", "u", "t", "e">>, <<"r", "e", "n", "a", "m", "e">>, <<"s", "e", "l", "e", "c", "t">>, <<"c", "a", "s", "t">>, <<"d", "a", "t", "e", "_", "p", "a", "r", "s", "e">>, <<"d", "a", "t", "e", "_", "t", "r", "u", "n", "c">>,
     <<"w", "i", "n", "d", "o", "w", "_", "r", "a", "n", "k">>, <<"c", "u", "m", "s", "u", "m">>, <<"p", "c", "t", "_", "c", "h", "a", "n", "g", "e">>, <<"f", "i", "l", "l", "n", "a">>}

\* the name a step gives its new column
NewColumn(step, default) == StrV(PyStr(OrDefault(step.new_column, StrV(default))))

\* the columns the step writes into
Targets(tb, step) ==
    CASE OpTag(step) = <<"c", "o", "m", "p", "u", "t", "e">> -> {NewColumn(step, <<"n", "e", "w">>)}
      [] OpTag(step) = <<"w", "i", "n", "d", "o", "w", "_", "r", "a", "n", "k">> ->
            {StrV(PyStr(OrDefault(step.rank_column, StrV(<<"r", "a", "n", "k">>))))}
      [] OpTag(step) = <<"c", "u", "m", "s", "u", "m">> ->
            {NewColumn(step, PyStr(StepColumn(tb, step)) \o <<"_", "c", "u", "m", "s", "u", "m">>)}
      [] OpTag(step) = <<"p", "c", "t", "_", "c", "h", "a", "n", "g", "e">> ->
            {NewColumn(step, PyStr(StepColumn(tb, step)) \o <<"_", "p", "c", "t", "_", "c", "h", "a", "n", "g", "e">>)}
      [] OpTag(step) \in {<<"c", "a", "s", "t">>, <<"d", "a", "t", "e", "_", "p", "a", "r", "s", "e">>, <<"d", "a", "t", "e", "_", "t", "r", "u", "n", "c">>} ->
            {ResolveColumn(tb.cols, PyStr(NamedColumns(step)[i])) :
                i \in 1..Len(NamedColumns(step))}
      [] OTHER -> {}

\* every column of the table before that the step does not write into and
\* that the table after still has holds the same cells in the same rows;
\* fillna may fill the missing ones
RowsInPlace(old, new, step) ==
    \A c \in (SeqToSet(old.cols) \cap SeqToSet(new.cols)) \ Targets(old, step) :
        \A r \in 1..NRows(old) :
            \/ Column(new, c)[r] = Column(old, c)[r]
            \/ OpTag(step) = <<"f", "i", "l", "l", "n", "a">> /\ IsNull(Column(old, c)[r])

\* C27: no operation but pivot gives more rows than it got; compute,
\* rename, select, cast, date_parse, date_trunc, window_rank, cumsum,
\* pct_change and fillna keep the number of rows and their order; sort
\* keeps the number of rows.
C27_RowFrame ==
    AfterStep =>
        /\ OpTag(last.step) # <<"p", "i", "v", "o", "t">> => NRows(working) <= NRows(last.before)
        /\ OpTag(last.step) \in RowKeepingOps =>
              /\ NRows(working) = NRows(last.before)
              /\ RowsInPlace(last.before, working, last.step)
        /\ OpTag(last.step) = <<"r", "e", "n", "a", "m", "e">> => working.rows = last.before.rows
        /\ OpTag(last.step) = <<"s", "o", "r", "t">> => NRows(working) = NRows(last.before)

\* C27 happens: a filter cut the table to fewer rows and a cumsum then
\* added its column to the rows that were left
C27_CumsumAfterFilter ==
    /\ Len(plan) = 2
    /\ OpTag(plan[1]) = <<"f", "i", "l", "t", "e", "r">>
    /\ OpTag(plan[2]) = <<"c", "u", "m", "s", "u", "m">>
    /\ NRows(working) < NRows(input)
    /\ NRows(working) > 0
    /\ NCols(working) = NCols(last.before) + 1
\* the answer was given by the fallback path
FallbackAnswered == agState.answer \in {"agent", "describe"}

AllStored == agState.plan # NoneV /\ agState.table /\ agState.logs
NoneStored == agState.plan = NoneV /\ ~agState.table /\ ~agState.logs

\* C28: an exception of plan generation or plan execution stays inside
\* analysis_agent and the fallback path gives the answer (summarisation
\* catches its own); on return the plan, the table and the logs are stored
\* all three, with the answer of the structured path, or none of them,
\* with the answer of the fallback path.
C28_RaiseFallsBack ==
    agPc = "returned" =>
        /\ agRaised # "none" => (FallbackAnswered /\ NoneStored)
        /\ \/ AllStored /\ agState.answer \in SummaryAnswers /\ agState.plan = agPlan
           \/ NoneStored /\ FallbackAnswered

\* C28 happens: the executor raised on a plan that passed the gate and the
\* pandas agent answered
C28_ExecutorRaised ==
    /\ agPc = "returned"
    /\ agRaised = "execute"
    /\ agRan
    /\ agState = [NothingStored EXCEPT !.answer = "agent"]
----------------------------------------------------------------------------
(* Properties of the graph *)

Ran(node) == \E i \in 1..Len(grVisited) : grVisited[i] = node
Times(node) == Cardinality({i \in 1..Len(grVisited) : grVisited[i] = node})
RanBefore(a, b) ==
    \A j \in 1..Len(grVisited) :
        grVisited[j] = b => \E i \in 1..(j - 1) : grVisited[i] = a

IngestIntents == {<<"i", "n", "g", "e", "s", "t">>, <<"i", "n", "g", "e", "s", "t", "_", "t", "h", "e", "n", "_", "a", "n", "a", "l", "y", "z", "e">>, <<"i", "n", "g", "e", "s", "t", "_", "t", "h", "e", "n", "_", "v", "i", "s", "u", "a", "l", "i", "z", "e">>}
AnalysisIntents == {<<"a", "n", "a", "l", "y", "z", "e">>, <<"i", "n", "g", "e", "s", "t", "_", "t", "h", "e", "n", "_", "a", "n", "a", "l", "y", "z", "e">>} \cup (Seq(STRING) \ Intents)
VisualIntents == {<<"v", "i", "s", "u", "a", "l", "i", "z", "e">>, <<"i", "n", "g", "e", "s", "t", "_", "t", "h", "e", "n", "_", "v", "i", "s", "u", "a", "l", "i", "z", "e">>}

\* C29: routing follows the intent. An agent runs only on its intents:
\* ingestion on ingest, ingest_then_analyze and ingest_then_visualize, and
\* then before analysis and visualization; analysis on analyze,
\* ingest_then_analyze and any unrecognized value; visualization on
\* visualize and ingest_then_visualize; analysis and visualization never
\* both run. In an invocation that reached END every agent of the intent
\* has run.
C29_RoutingFollowsIntent ==
    /\ Ran("ingestion") =>
          /\ grState.intent.s \in IngestIntents
          /\ RanBefore("ingestion", "analysis")
          /\ RanBefore("ingestion", "visualization")
    /\ Ran("analysis") => grState.intent.s \in AnalysisIntents
    /\ Ran("visualization") => grState.intent.s \in VisualIntents
    /\ ~(Ran("analysis") /\ Ran("visualization"))
    /\ grPc = "end" =>
          /\ grState.intent.s \in IngestIntents => Ran("ingestion")
          /\ grState.intent.s \in AnalysisIntents => Ran("analysis")
          /\ grState.intent.s \in VisualIntents => Ran("visualization")

\* an upload with a chart request went through ingestion, then visualization
C29_IngestThenVisualize ==
    /\ grPc = "end"
    /\ grVisited = <<"router", "ingestion", "visualization", "finalize">>
    /\ grState.intent = StrV(<<"i", "n", "g", "e", "s", "t", "_", "t", "h", "e", "n", "_", "v", "i", "s", "u", "a", "l", "i", "z", "e">>)

EndedWell ==
    /\ \A node \in {"ingestion", "analysis", "visualization"} : Times(node) <= 1
    /\ Times("finalize") = 1
    /\ grVisited[Len(grVisited)] = "finalize"
    /\ grVisited[1] = "router"
    /\ grState.intent.t = "str"
    /\ grState.intent.s \in Intents
    /\ grState.final_answer.t = "str"
    /\ grState.final_answer.s # <<>>

\* C30: every invocation in which no node raises terminates: it reaches END
\* having started at router, visited each of ingestion, analysis and
\* visualization at most once and finalize exactly once and last, with
\* intent one of the five values and final_answer a non-empty string.
C30_Terminates == <>(grPc = "raised" \/ (grPc = "end" /\ EndedWell))

\* an upload without a question ends with the generic message
C30_IngestOnlyTaskCompleted ==
    /\ grPc = "end"
    /\ grVisited = <<"router", "ingestion", "finalize">>
    /\ grState.final_answer = StrV(<<"T", "a", "s", "k", " ", "c", "o", "m", "p", "l", "e", "t", "e", "d", ".">>)
====
